---------------------------- MODULE Spec2Model ----------------------------
(***************************************************************************)
(* A model of the MuhsinAI backend: the schedule validator, the chat       *)
(* orchestrator (OpenAIService.chat_with_user), the chat endpoints of      *)
(* app/api/chat.py and the chat/user rows they read and write through      *)
(* app/db/crud.py; registration and login (app/services/auth_service.py),  *)
(* the user preferences (app/services/user_service.py) and the rate        *)
(* limiter (app/utils/security.py).                                        *)
(*                                                                         *)
(* Texts are TLA+ strings and are inspected character by character.  A     *)
(* JSON-decoded (Python) value is a record [t, v]: t is the Python type    *)
(* ("str", "num", "bool", "null", "list", "map") and v the payload: a      *)
(* string, an integer, a boolean, 0, a sequence of values, or a function   *)
(* from key strings to values.                                             *)
(***************************************************************************)
EXTENDS Integers, Sequences, FiniteSets, TLC

VARIABLES
    users,      \* ids of the rows of table users
    chats,      \* rows of table chats: [id, user_id, prompt, response, created_at]
    preferences,\* rows of table user_preferences: [id, user_id, the columns]
    requests,   \* the requests of the run, by slot: what was asked and answered
    vIn,        \* validator run: the argument schedule_data
    vToday,     \* validator run: the date datetime.now().date() returns
    vOut,       \* validator run: the outcome of the call
    vpc,        \* validator run: position ("off", "call", "returned", "raised", ...)
    emails,     \* column users.email: the stored email of each row of users
    rate_limiter,\* RateLimiter.requests: for each client key, its list of times
    clock,      \* what time.time() returns, in seconds
    admitted    \* for each endpoint type, the times of the requests admitted

\* the rate limiter, its clock and the record of what it admitted
limiterVars == <<rate_limiter, clock, admitted>>

vars == <<users, chats, preferences, requests, vIn, vToday, vOut, vpc,
          emails, limiterVars>>

-----------------------------------------------------------------------------
(* Bounds of the model *)

\* the longest events list among the validator's inputs
MaxEvents == 2

\* the number of requests in a run
MaxRequests == 2

\* the most records in a stored history of the statistics runs
MaxRows == 3

-----------------------------------------------------------------------------
(* Python values *)

JStr(s) == [t |-> "str", v |-> s]
JNum(n) == [t |-> "num", v |-> n]
JBool(b) == [t |-> "bool", v |-> b]
JNull == [t |-> "null", v |-> 0]
JList(q) == [t |-> "list", v |-> q]
JMap(f) == [t |-> "map", v |-> f]

\* marks a key a dict does not have
Absent == [t |-> "absent", v |-> 0]

\* the dict holding the fields that are not Absent
MkDict(fields) ==
    JMap([k \in {f \in DOMAIN fields : fields[f] # Absent} |-> fields[k]])

\* Python's None
None == [t |-> "null", v |-> 0]

\* the outcome of a call: a returned value or a raised exception
Ok(x) == [ok |-> TRUE, value |-> x]
Raise(e) == [ok |-> FALSE, exc |-> e]

\* d[k] = val on a dict
SetItem(d, k, val) == [x \in (DOMAIN d) \cup {k} |-> IF x = k THEN val ELSE d[x]]

\* d.get(k, default)
DictGet(d, k, default) == IF k \in DOMAIN d THEN d[k] ELSE default

\* x in [s1, s2, ...] for a list of str literals: == on each element
PyInStrList(x, lits) == \E i \in 1..Len(lits) : x = JStr(lits[i])

\* the rest of a computation after a call that may have raised
Bind(r, F(_)) == IF r.ok THEN F(r.value) ELSE r

-----------------------------------------------------------------------------
(* Text *)

CharAt(s, i) == SubSeq(s, i, i)

DigitChars == {"0", "1", "2", "3", "4", "5", "6", "7", "8", "9"}

WhitespaceChars == {" ", "\t", "\n", "\r"}

\* str.startswith
StartsWith(s, p) == Len(s) >= Len(p) /\ SubSeq(s, 1, Len(p)) = p

\* p in s, for texts
Contains(s, p) ==
    \E i \in 1..(Len(s) - Len(p) + 1) : SubSeq(s, i, i + Len(p) - 1) = p

RECURSIVE LStrip(_)
LStrip(s) ==
    IF Len(s) > 0 /\ CharAt(s, 1) \in WhitespaceChars
    THEN LStrip(SubSeq(s, 2, Len(s)))
    ELSE s

RECURSIVE RStrip(_)
RStrip(s) ==
    IF Len(s) > 0 /\ CharAt(s, Len(s)) \in WhitespaceChars
    THEN RStrip(SubSeq(s, 1, Len(s) - 1))
    ELSE s

\* str.strip()
PyStrip(s) == RStrip(LStrip(s))

UpperChars == <<"A", "B", "C", "D", "E", "F", "G", "H", "I", "J", "K", "L", "M",
                "N", "O", "P", "Q", "R", "S", "T", "U", "V", "W", "X", "Y", "Z">>

LowerChars == <<"a", "b", "c", "d", "e", "f", "g", "h", "i", "j", "k", "l", "m",
                "n", "o", "p", "q", "r", "s", "t", "u", "v", "w", "x", "y", "z">>

UpperSet == { UpperChars[i] : i \in 1..Len(UpperChars) }

LowerChar(c) ==
    IF c \in UpperSet
    THEN LowerChars[CHOOSE i \in 1..Len(UpperChars) : UpperChars[i] = c]
    ELSE c

RECURSIVE PyLower(_)
\* str.lower()
PyLower(s) ==
    IF Len(s) = 0 THEN ""
    ELSE IF Len(s) = 1 THEN LowerChar(s)
    ELSE PyLower(SubSeq(s, 1, Len(s) \div 2))
             \o PyLower(SubSeq(s, Len(s) \div 2 + 1, Len(s)))

RECURSIVE JoinTexts(_, _)
\* sep.join(parts)
JoinTexts(parts, sep) ==
    IF Len(parts) = 0 THEN ""
    ELSE IF Len(parts) = 1 THEN parts[1]
    ELSE parts[1] \o sep \o JoinTexts(Tail(parts), sep)

\* the keys of a dict in the order they are written out.  A function keeps no
\* insertion order: the keys the program writes come first, in the order the
\* program writes them, then any other key.
KeyOrder ==
    <<"success", "message", "schedule", "schedule_type", "date_range",
      "start_date", "end_date", "events", "title", "description", "start_time",
      "end_time", "date", "category", "priority", "suggestions",
      "conversation_id", "model_used", "timestamp", "note">>

RECURSIVE SeqOfSet(_)
SeqOfSet(S) ==
    IF S = {} THEN <<>>
    ELSE LET x == CHOOSE y \in S : TRUE IN <<x>> \o SeqOfSet(S \ {x})

KeysInOrder(d) ==
    LET known == SelectSeq(KeyOrder, LAMBDA k : k \in DOMAIN d)
        rest == (DOMAIN d) \ {KeyOrder[i] : i \in 1..Len(KeyOrder)}
    IN known \o SeqOfSet(rest)

RECURSIVE PyRepr(_)
\* repr(x)
PyRepr(x) ==
    CASE x.t = "str" -> "'" \o x.v \o "'"
      [] x.t = "num" -> ToString(x.v)
      [] x.t = "bool" -> IF x.v THEN "True" ELSE "False"
      [] x.t = "null" -> "None"
      [] x.t = "list" ->
           "[" \o JoinTexts([i \in 1..Len(x.v) |-> PyRepr(x.v[i])], ", ") \o "]"
      [] x.t = "map" ->
           LET ks == KeysInOrder(x.v) IN
           "{" \o JoinTexts([i \in 1..Len(ks) |->
                               "'" \o ks[i] \o "': " \o PyRepr(x.v[ks[i]])], ", ")
               \o "}"

\* str(x)
PyStr(x) == IF x.t = "str" THEN x.v ELSE PyRepr(x)

\* key in x, for a str key: membership in a dict's keys, == on a list's
\* elements, substring of a str; TypeError on anything else
PyIn(key, x) ==
    CASE x.t = "map" -> Ok(key \in DOMAIN x.v)
      [] x.t = "list" -> Ok(\E i \in 1..Len(x.v) : x.v[i] = JStr(key))
      [] x.t = "str" -> Ok(Contains(x.v, key))
      [] OTHER -> Raise("TypeError")

\* x[key], for a str key
PyGetItem(x, key) ==
    IF x.t = "map"
    THEN IF key \in DOMAIN x.v THEN Ok(x.v[key]) ELSE Raise("KeyError")
    ELSE Raise("TypeError")

\* x[key] = val, for a str key
PySetItem(x, key, val) ==
    IF x.t = "map" THEN Ok(JMap(SetItem(x.v, key, val))) ELSE Raise("TypeError")

\* x.get(key, default)
PyGet(x, key, default) ==
    IF x.t = "map" THEN Ok(DictGet(x.v, key, default)) ELSE Raise("AttributeError")

\* the elements `for e in x` visits
PyIter(x) ==
    CASE x.t = "list" -> Ok(x.v)
      [] x.t = "str" -> Ok([i \in 1..Len(x.v) |-> JStr(CharAt(x.v, i))])
      [] x.t = "map" ->
           LET ks == KeysInOrder(x.v) IN Ok([i \in 1..Len(ks) |-> JStr(ks[i])])
      [] OTHER -> Raise("TypeError")

-----------------------------------------------------------------------------
(* Dates: datetime.date, timedelta(days=1), date.isoformat() *)

IsLeap(y) == (y % 4 = 0 /\ y % 100 # 0) \/ y % 400 = 0

DaysInMonth(y, m) ==
    CASE m \in {1, 3, 5, 7, 8, 10, 12} -> 31
      [] m \in {4, 6, 9, 11} -> 30
      [] m = 2 -> IF IsLeap(y) THEN 29 ELSE 28

\* date + timedelta(days=1)
PlusOneDay(date) ==
    IF date.d < DaysInMonth(date.y, date.m)
    THEN [date EXCEPT !.d = date.d + 1]
    ELSE IF date.m < 12
    THEN [y |-> date.y, m |-> date.m + 1, d |-> 1]
    ELSE [y |-> date.y + 1, m |-> 1, d |-> 1]

Pad2(n) == IF n < 10 THEN "0" \o ToString(n) ELSE ToString(n)

Pad4(n) ==
    IF n < 10 THEN "000" \o ToString(n)
    ELSE IF n < 100 THEN "00" \o ToString(n)
    ELSE IF n < 1000 THEN "0" \o ToString(n)
    ELSE ToString(n)

\* date.isoformat()
IsoFormat(date) == Pad4(date.y) \o "-" \o Pad2(date.m) \o "-" \o Pad2(date.d)

-----------------------------------------------------------------------------
(* OpenAIService._validate_schedule_response.  Every statement is an        *)
(* operator from the value of schedule_data before it to Ok(the value       *)
(* after it) or Raise(the exception it raises).                             *)

required_fields == <<"schedule_type", "date_range", "events">>

valid_types == <<"daily", "weekly", "custom">>

valid_categories == <<"work", "personal", "health", "education", "social">>

valid_priorities == <<"high", "medium", "low">>

\* {"start_date": today.isoformat(), "end_date": (today + timedelta(days=1)).isoformat()}
DefaultDateRange(today) ==
    JMap([start_date |-> JStr(IsoFormat(today)),
          end_date |-> JStr(IsoFormat(PlusOneDay(today)))])

\* what the first loop stores for a required field that is missing
RequiredDefault(field, today) ==
    CASE field = "schedule_type" -> JStr("custom")
      [] field = "date_range" -> DefaultDateRange(today)
      [] field = "events" -> JList(<<>>)

RECURSIVE CheckRequiredFields(_, _, _)
\* for field in required_fields: if field not in schedule_data: schedule_data[field] = ...
CheckRequiredFields(x, i, today) ==
    IF i > Len(required_fields) THEN Ok(x)
    ELSE LET field == required_fields[i]
             present == PyIn(field, x)
         IN IF ~present.ok THEN present
            ELSE IF ~present.value
            THEN Bind(PySetItem(x, field, RequiredDefault(field, today)),
                      LAMBDA y : CheckRequiredFields(y, i + 1, today))
            ELSE CheckRequiredFields(x, i + 1, today)

\* a faulty variant of ValidateScheduleType, which keeps any schedule type
KeepScheduleType(x) == Ok(x)

\* if schedule_data["schedule_type"] not in valid_types: ... = "custom"
ValidateScheduleType(x) ==
    Bind(PyGetItem(x, "schedule_type"),
         LAMBDA st : IF ~PyInStrList(st, valid_types)
                     THEN PySetItem(x, "schedule_type", JStr("custom"))
                     ELSE Ok(x))

\* if not isinstance(date_range, dict) or "start_date" not in date_range
\*    or "end_date" not in date_range: schedule_data["date_range"] = {...}
ValidateDateRange(x, today) ==
    Bind(PyGetItem(x, "date_range"),
         LAMBDA date_range :
             IF date_range.t # "map"
                \/ "start_date" \notin DOMAIN date_range.v
                \/ "end_date" \notin DOMAIN date_range.v
             THEN PySetItem(x, "date_range", DefaultDateRange(today))
             ELSE Ok(x))

\* a faulty variant of ValidateEventsIsList, which leaves an events value that
\* is no list in place
KeepEventsValue(x) == Ok(x)

\* if not isinstance(schedule_data["events"], list): schedule_data["events"] = []
ValidateEventsIsList(x) ==
    Bind(PyGetItem(x, "events"),
         LAMBDA events : IF events.t # "list"
                         THEN PySetItem(x, "events", JList(<<>>))
                         ELSE Ok(x))

\* a faulty variant of IsKeptEvent, which keeps every dict
IsDictEvent(event) == event.t = "map"

\* if isinstance(event, dict) and "title" in event
IsKeptEvent(event) == event.t = "map" /\ "title" \in DOMAIN event.v

\* a faulty variant of ValidateCategory, which keeps any category
KeepCategory(text) == text

\* if validated_event["category"] not in valid_categories: ... = "personal"
ValidateCategory(text) ==
    IF ~PyInStrList(JStr(text), valid_categories) THEN "personal" ELSE text

\* if validated_event["priority"] not in valid_priorities: ... = "medium"
ValidatePriority(text) ==
    IF ~PyInStrList(JStr(text), valid_priorities) THEN "medium" ELSE text

\* a faulty variant of StrOfField, which takes repr() in place of str()
ReprOfField(event, key, default) ==
    Bind(PyGet(event, key, JStr(default)), LAMBDA val : Ok(PyRepr(val)))

\* str(event.get(key, default))
StrOfField(event, key, default) ==
    Bind(PyGet(event, key, JStr(default)), LAMBDA val : Ok(PyStr(val)))

\* the dict validated_event built for one kept element
ValidatedEvent(event, today) ==
    LET title == StrOfField(event, "title", "Untitled Event")
        description == StrOfField(event, "description", "")
        start_time == StrOfField(event, "start_time", "09:00")
        end_time == StrOfField(event, "end_time", "10:00")
        date == StrOfField(event, "date", IsoFormat(today))
        category == StrOfField(event, "category", "personal")
        priority == StrOfField(event, "priority", "medium")
    IN IF ~title.ok THEN title
       ELSE Ok(JMap([title |-> JStr(title.value),
                     description |-> JStr(description.value),
                     start_time |-> JStr(start_time.value),
                     end_time |-> JStr(end_time.value),
                     date |-> JStr(date.value),
                     category |-> JStr(ValidateCategory(category.value)),
                     priority |-> JStr(ValidatePriority(priority.value))]))

RECURSIVE ValidateEachEvent(_, _, _, _)
\* for event in schedule_data["events"]: ... validated_events.append(validated_event)
ValidateEachEvent(events, i, validated_events, today) ==
    IF i > Len(events) THEN Ok(validated_events)
    ELSE IF IsKeptEvent(events[i])
    THEN Bind(ValidatedEvent(events[i], today),
              LAMBDA ve : ValidateEachEvent(events, i + 1,
                                            Append(validated_events, ve), today))
    ELSE ValidateEachEvent(events, i + 1, validated_events, today)

\* validated_events = [] ... schedule_data["events"] = validated_events
ValidateEvents(x, today) ==
    Bind(PyGetItem(x, "events"),
         LAMBDA events :
             Bind(PyIter(events),
                  LAMBDA elems :
                      Bind(ValidateEachEvent(elems, 1, <<>>, today),
                           LAMBDA validated_events :
                               PySetItem(x, "events", JList(validated_events)))))

\* if "suggestions" not in schedule_data: ... = []
\* elif not isinstance(schedule_data["suggestions"], list): ... = []
EnsureSuggestions(x) ==
    Bind(PyIn("suggestions", x),
         LAMBDA present :
             IF ~present THEN PySetItem(x, "suggestions", JList(<<>>))
             ELSE Bind(PyGetItem(x, "suggestions"),
                       LAMBDA suggestions :
                           IF suggestions.t # "list"
                           THEN PySetItem(x, "suggestions", JList(<<>>))
                           ELSE Ok(x)))

\* _validate_schedule_response(schedule_data), with `today` the date that
\* datetime.now().date() returns during the call
_validate_schedule_response(schedule_data, today) ==
    Bind(CheckRequiredFields(schedule_data, 1, today),
         LAMBDA x1 :
    Bind(ValidateScheduleType(x1),
         LAMBDA x2 :
    Bind(ValidateDateRange(x2, today),
         LAMBDA x3 :
    Bind(ValidateEventsIsList(x3),
         LAMBDA x4 :
    Bind(ValidateEvents(x4, today),
         LAMBDA x5 : EnsureSuggestions(x5))))))

-----------------------------------------------------------------------------
(* json.dumps and json.loads *)

\* the escape json.dumps writes for one character of a str
JsonEscapeChar(c) ==
    CASE c = "\"" -> "\\\""
      [] c = "\\" -> "\\\\"
      [] c = "\n" -> "\\n"
      [] c = "\t" -> "\\t"
      [] c = "\r" -> "\\r"
      [] OTHER -> c

RECURSIVE JsonEscape(_)
\* the escapes of the characters of s, in order (by halves, to keep the
\* evaluation shallow on long texts)
JsonEscape(s) ==
    IF Len(s) = 0 THEN ""
    ELSE IF Len(s) = 1 THEN JsonEscapeChar(s)
    ELSE JsonEscape(SubSeq(s, 1, Len(s) \div 2))
             \o JsonEscape(SubSeq(s, Len(s) \div 2 + 1, Len(s)))

RECURSIVE JsonDumps(_)
\* json.dumps(x): the default separators ", " and ": "
JsonDumps(x) ==
    CASE x.t = "str" -> "\"" \o JsonEscape(x.v) \o "\""
      [] x.t = "num" -> ToString(x.v)
      [] x.t = "bool" -> IF x.v THEN "true" ELSE "false"
      [] x.t = "null" -> "null"
      [] x.t = "list" ->
           "[" \o JoinTexts([i \in 1..Len(x.v) |-> JsonDumps(x.v[i])], ", ") \o "]"
      [] x.t = "map" ->
           LET ks == KeysInOrder(x.v) IN
           "{" \o JoinTexts([i \in 1..Len(ks) |->
                               "\"" \o JsonEscape(ks[i]) \o "\": "
                                   \o JsonDumps(x.v[ks[i]])], ", ")
               \o "}"

\* the JSON documents the language model writes in the replies of the model
\* a well-formed schedule
GymDay ==
    MkDict([message |-> JStr("Here is your plan"),
            schedule_type |-> JStr("daily"),
            date_range |-> MkDict([start_date |-> JStr("2024-03-01"),
                                   end_date |-> JStr("2024-03-01")]),
            events |-> JList(<<MkDict([title |-> JStr("Gym"),
                                       description |-> JStr("Leg day"),
                                       start_time |-> JStr("07:30"),
                                       end_time |-> JStr("08:15"),
                                       date |-> JStr("2024-03-01"),
                                       category |-> JStr("health"),
                                       priority |-> JStr("high")])>>),
            suggestions |-> JList(<<JStr("Drink water")>>)])

\* two events of one category
ReportDay ==
    MkDict([schedule_type |-> JStr("daily"),
            events |-> JList(<<MkDict([title |-> JStr("Write report"),
                                       category |-> JStr("work")]),
                               MkDict([title |-> JStr("Review"),
                                       category |-> JStr("work")])>>)])

\* one event of another category
CallDay ==
    MkDict([schedule_type |-> JStr("daily"),
            events |-> JList(<<MkDict([title |-> JStr("Call home"),
                                       category |-> JStr("personal")])>>)])

\* a schedule without events
FreeDay == MkDict([schedule_type |-> JStr("custom"), events |-> JList(<<>>)])

\* the documents the language model's replies denote in the model
ReplyDocuments ==
    { GymDay, ReportDay, CallDay, FreeDay,
      \* only the two keys the orchestrator looks for
      MkDict([schedule_type |-> JStr("weekly"),
              events |-> JList(<<MkDict([title |-> JStr("Standup")])>>)]),
      \* fields of the wrong type that the validator repairs
      MkDict([schedule_type |-> JNum(5), events |-> JStr("none"),
              date_range |-> JStr("next week"), suggestions |-> JStr("rest")]),
      \* "events" missing, "schedule_type" missing, both missing
      MkDict([message |-> JStr("No events"), schedule_type |-> JStr("daily")]),
      MkDict([events |-> JList(<<>>)]),
      MkDict([note |-> JStr("hi")]),
      \* an event time that is not HH:MM
      MkDict([schedule_type |-> JStr("daily"),
              events |-> JList(<<MkDict([title |-> JStr("Gym"),
                                         start_time |-> JStr("9am")])>>)]),
      \* date_range values that are no YYYY-MM-DD texts
      MkDict([schedule_type |-> JStr("daily"),
              date_range |-> MkDict([start_date |-> JStr("tomorrow"),
                                     end_date |-> JNum(5)]),
              events |-> JList(<<>>)]),
      \* a suggestions element that is no text
      MkDict([schedule_type |-> JStr("daily"), events |-> JList(<<>>),
              suggestions |-> JList(<<JNum(1)>>)]),
      \* a message that is no text
      MkDict([message |-> JNum(5), schedule_type |-> JStr("daily"),
              events |-> JList(<<>>)]),
      \* a document that is no object
      JList(<<JNum(1), JNum(2)>>) }

\* the texts json.loads decodes, each with the document it denotes: the
\* json.dumps texts of `docs`
JsonTable(docs) == { <<JsonDumps(doc), doc>> : doc \in docs }

ReplyJson == JsonTable(ReplyDocuments)

\* json.loads(text): the document the text denotes, JSONDecodeError when it
\* denotes none.  Whitespace around the document is skipped.
JsonLoads(text, table) ==
    LET core == PyStrip(text)
        denoted == { e \in table : e[1] = core }
    IN IF denoted # {}
       THEN Ok((CHOOSE e \in denoted : TRUE)[2])
       ELSE Raise("JSONDecodeError")

\* the texts response.choices[0].message.content takes in the model
ReplyTexts ==
    { JsonDumps(doc) : doc \in ReplyDocuments }
    \cup { "Sure, here is some advice.",
           "schedule",
           "{oops",
           "  " \o JsonDumps(MkDict([schedule_type |-> JStr("weekly"),
                     events |-> JList(<<MkDict([title |-> JStr("Standup")])>>)]))
               \o "\n" }

-----------------------------------------------------------------------------
(* OpenAIService._is_scheduling_request and OpenAIService.chat_with_user *)

scheduling_keywords ==
    <<"schedule", "plan", "organize", "time", "calendar", "agenda",
      "routine", "timetable", "arrange", "allocate", "block",
      "morning", "afternoon", "evening", "today", "tomorrow",
      "week", "day", "hour", "minute", "appointment", "meeting">>

\* a faulty variant of _is_scheduling_request, which looks for the keywords
\* in the prompt as typed
is_scheduling_as_typed(user_prompt) ==
    \E i \in 1..Len(scheduling_keywords) :
        Contains(user_prompt, scheduling_keywords[i])

_is_scheduling_request(user_prompt) ==
    LET prompt_lower == PyLower(user_prompt) IN
    \E i \in 1..Len(scheduling_keywords) :
        Contains(prompt_lower, scheduling_keywords[i])

\* self.model
ModelName == "gpt-3.5-turbo"

\* what datetime.now() returns during a request: the date and the POSIX time
Clocks == { [today |-> [y |-> 2024, m |-> 2, d |-> 28], epoch |-> 1709121600] }

\* f"chat_{datetime.now().timestamp()}"
ChatConversationId(now) == "chat_" \o ToString(now.epoch) \o ".0"

\* datetime.now().isoformat()
IsoDateTime(now) == IsoFormat(now.today) \o "T12:00:00"

\* the dict returned for a schedule (lines 154-161)
ScheduleResult(message, validated_schedule, now) ==
    MkDict([success |-> JBool(TRUE),
            message |-> message,
            schedule |-> validated_schedule,
            conversation_id |-> JStr(ChatConversationId(now)),
            model_used |-> JStr(ModelName),
            timestamp |-> JStr(IsoDateTime(now))])

\* the dict returned for a regular conversation (lines 166-172)
ConversationResult(ai_response, now) ==
    MkDict([success |-> JBool(TRUE),
            message |-> JStr(ai_response),
            conversation_id |-> JStr(ChatConversationId(now)),
            model_used |-> JStr(ModelName),
            timestamp |-> JStr(IsoDateTime(now))])

\* a faulty variant of LooksLikeJson, which does not look at the classification
\* of the prompt
StartsLikeJson(is_scheduling, ai_response) ==
    StartsWith(PyStrip(ai_response), "{")

\* if is_scheduling and ai_response.strip().startswith('{')
LooksLikeJson(is_scheduling, ai_response) ==
    is_scheduling /\ StartsWith(PyStrip(ai_response), "{")

\* if "schedule_type" in schedule_data and "events" in schedule_data
HasScheduleKeys(schedule_data) ==
    Bind(PyIn("schedule_type", schedule_data),
         LAMBDA a : IF a THEN PyIn("events", schedule_data) ELSE Ok(FALSE))

\* the inner try block (lines 147-163): Ok(the dict it returns), Ok(None) when
\* it falls through to the regular conversation response (also after
\* `except json.JSONDecodeError: pass`), Raise for any other exception
TryParseSchedule(is_scheduling, ai_response, now) ==
    IF ~LooksLikeJson(is_scheduling, ai_response) THEN Ok(JNull)
    ELSE LET loaded == JsonLoads(ai_response, ReplyJson) IN
         IF ~loaded.ok THEN Ok(JNull)
         ELSE LET schedule_data == loaded.value IN
              Bind(HasScheduleKeys(schedule_data),
                   LAMBDA has :
                       IF ~has THEN Ok(JNull)
                       ELSE Bind(_validate_schedule_response(schedule_data, now.today),
                                 LAMBDA validated_schedule :
                                     Bind(PyGet(validated_schedule, "message",
                                                JStr("I've created a schedule for you!")),
                                          LAMBDA message :
                                              Ok(ScheduleResult(message,
                                                                validated_schedule,
                                                                now)))))

\* a faulty variant of chat_with_user, which answers with a regular
\* conversation response whatever the call of the language model gave
chat_always_answers(user_prompt, completion, now) ==
    Ok(ConversationResult(IF completion.ok THEN completion.value ELSE "", now))

\* chat_with_user(user_prompt, user_context).  `completion` is the outcome of
\* self.client.chat.completions.create: Ok(the reply text) or Raise.  Every
\* exception leaves the function as Exception ("OpenAI API error: ..." or
\* "Chat failed: ...").
chat_with_user(user_prompt, completion, now) ==
    LET is_scheduling == _is_scheduling_request(user_prompt) IN
    IF ~completion.ok THEN Raise("Exception")
    ELSE LET ai_response == completion.value
             parsed == TryParseSchedule(is_scheduling, ai_response, now)
         IN IF ~parsed.ok THEN Raise("Exception")
            ELSE IF parsed.value # JNull THEN parsed
            ELSE Ok(ConversationResult(ai_response, now))

-----------------------------------------------------------------------------
(* The response schema of app/models/chat.py (pydantic) *)

\* ^\d{4}-\d{2}-\d{2}$
MatchesDatePattern(s) ==
    /\ Len(s) = 10
    /\ \A i \in {1, 2, 3, 4, 6, 7, 9, 10} : CharAt(s, i) \in DigitChars
    /\ CharAt(s, 5) = "-"
    /\ CharAt(s, 8) = "-"

\* ^([0-1]?[0-9]|2[0-3]):[0-5][0-9]$
MatchesTimePattern(s) ==
    \/ /\ Len(s) = 4
       /\ CharAt(s, 1) \in DigitChars
       /\ CharAt(s, 2) = ":"
       /\ CharAt(s, 3) \in {"0", "1", "2", "3", "4", "5"}
       /\ CharAt(s, 4) \in DigitChars
    \/ /\ Len(s) = 5
       /\ \/ CharAt(s, 1) \in {"0", "1"} /\ CharAt(s, 2) \in DigitChars
          \/ CharAt(s, 1) = "2" /\ CharAt(s, 2) \in {"0", "1", "2", "3"}
       /\ CharAt(s, 3) = ":"
       /\ CharAt(s, 4) \in {"0", "1", "2", "3", "4", "5"}
       /\ CharAt(s, 5) \in DigitChars

\* Field(pattern=...): "time", "date", or "" for a field without pattern
MatchesPattern(pattern, s) ==
    CASE pattern = "time" -> MatchesTimePattern(s)
      [] pattern = "date" -> MatchesDatePattern(s)
      [] OTHER -> TRUE

\* a str field: the value given, or `default` (Absent: the field is required);
\* a value that is no str or does not match the pattern is a ValidationError
StrField(d, key, default, pattern) ==
    LET val == DictGet(d, key, default) IN
    IF val # Absent /\ val.t = "str" /\ MatchesPattern(pattern, val.v)
    THEN Ok(val)
    ELSE Raise("ValidationError")

\* a Literal[...] field
LiteralField(d, key, default, literals) ==
    LET val == DictGet(d, key, default) IN
    IF val # Absent /\ PyInStrList(val, literals)
    THEN Ok(val)
    ELSE Raise("ValidationError")

\* ScheduleEvent
ScheduleEventModel(x) ==
    IF x.t # "map" THEN Raise("ValidationError")
    ELSE LET title == StrField(x.v, "title", Absent, "")
             description == StrField(x.v, "description", JStr(""), "")
             start_time == StrField(x.v, "start_time", Absent, "time")
             end_time == StrField(x.v, "end_time", Absent, "time")
             date == StrField(x.v, "date", Absent, "date")
             category == LiteralField(x.v, "category", JStr("personal"),
                                      valid_categories)
             priority == LiteralField(x.v, "priority", JStr("medium"),
                                      valid_priorities)
         IN IF title.ok /\ description.ok /\ start_time.ok /\ end_time.ok
               /\ date.ok /\ category.ok /\ priority.ok
            THEN Ok(JMap([title |-> title.value,
                          description |-> description.value,
                          start_time |-> start_time.value,
                          end_time |-> end_time.value,
                          date |-> date.value,
                          category |-> category.value,
                          priority |-> priority.value]))
            ELSE Raise("ValidationError")

\* DateRange
DateRangeModel(x) ==
    IF x.t # "map" THEN Raise("ValidationError")
    ELSE LET start_date == StrField(x.v, "start_date", Absent, "date")
             end_date == StrField(x.v, "end_date", Absent, "date")
         IN IF start_date.ok /\ end_date.ok
            THEN Ok(JMap([start_date |-> start_date.value,
                          end_date |-> end_date.value]))
            ELSE Raise("ValidationError")

\* Schedule(**schedule_data): keys that are no field of the model are ignored
ScheduleModel(schedule_data) ==
    IF schedule_data.t # "map" THEN Raise("TypeError")
    ELSE LET d == schedule_data.v
             schedule_type == LiteralField(d, "schedule_type", Absent, valid_types)
             date_range == IF "date_range" \in DOMAIN d
                           THEN DateRangeModel(d["date_range"])
                           ELSE Raise("ValidationError")
             events == DictGet(d, "events", JList(<<>>))
             suggestions == DictGet(d, "suggestions", JList(<<>>))
         IN IF /\ schedule_type.ok
               /\ date_range.ok
               /\ events.t = "list"
               /\ \A i \in 1..Len(events.v) : ScheduleEventModel(events.v[i]).ok
               /\ suggestions.t = "list"
               /\ \A i \in 1..Len(suggestions.v) : suggestions.v[i].t = "str"
            THEN Ok(JMap([schedule_type |-> schedule_type.value,
                          date_range |-> date_range.value,
                          events |-> JList([i \in 1..Len(events.v) |->
                                        ScheduleEventModel(events.v[i]).value]),
                          suggestions |-> suggestions]))
            ELSE Raise("ValidationError")

\* ChatResponse(success=True, message=..., schedule=..., conversation_id=...,
\* model_used=...): message, conversation_id and model_used are str fields
ChatResponseModel(message, schedule, conversation_id, model_used) ==
    IF message.t = "str" /\ conversation_id.t = "str" /\ model_used.t = "str"
    THEN Ok(JMap([success |-> JBool(TRUE),
                  message |-> message,
                  schedule |-> schedule,
                  conversation_id |-> conversation_id,
                  model_used |-> model_used]))
    ELSE Raise("ValidationError")

-----------------------------------------------------------------------------
(* Table chats and ChatCRUD (app/db/crud.py) *)

\* the ids of the registered users
UserIds == {1, 2}

\* the request slots: a slot holds one request to POST /chat/
Slots == 1..MaxRequests

\* the chat ids a request may name
ChatIds == 1..MaxRequests

\* the id a new row gets: an INTEGER PRIMARY KEY of SQLite, one more than the
\* largest id in the table
NextChatId(rows) ==
    IF rows = {} THEN 1
    ELSE (CHOOSE m \in {c.id : c \in rows} : \A c \in rows : c.id <= m) + 1

\* a faulty variant of create_chat, which replaces the user's rows with the
\* same prompt
create_chat_replacing(rows, user_id, prompt, response, created_at) ==
    LET chat == [id |-> NextChatId(rows),
                 user_id |-> user_id,
                 prompt |-> PyStrip(prompt),
                 response |-> PyStrip(response),
                 created_at |-> created_at]
        same == { c \in rows : c.user_id = user_id /\ c.prompt = chat.prompt }
    IN [chat |-> chat, rows |-> (rows \ same) \cup {chat}]

\* a faulty variant of create_chat, which stores a prompt of a user once and
\* returns the row it has for it
create_chat_once(rows, user_id, prompt, response, created_at) ==
    LET chat == [id |-> NextChatId(rows),
                 user_id |-> user_id,
                 prompt |-> PyStrip(prompt),
                 response |-> PyStrip(response),
                 created_at |-> created_at]
        same == { c \in rows : c.user_id = user_id /\ c.prompt = chat.prompt }
    IN IF same = {}
       THEN [chat |-> chat, rows |-> rows \cup {chat}]
       ELSE [chat |-> CHOOSE c \in same : TRUE, rows |-> rows]

\* ChatCRUD.create_chat: the row added and the table after the commit.
\* created_at is the time of the insert on the model's clock, which ticks at
\* every insert.
create_chat(rows, user_id, prompt, response, created_at) ==
    LET chat == [id |-> NextChatId(rows),
                 user_id |-> user_id,
                 prompt |-> PyStrip(prompt),
                 response |-> PyStrip(response),
                 created_at |-> created_at]
    IN [chat |-> chat, rows |-> rows \cup {chat}]

\* a faulty variant of OwnedChatsWithId, which does not filter by owner
ChatsWithId(rows, chat_id, user_id) ==
    { c \in rows : c.id = chat_id }

\* where(Chat.id == chat_id, Chat.user_id == user_id)
OwnedChatsWithId(rows, chat_id, user_id) ==
    { c \in rows : c.id = chat_id /\ c.user_id = user_id }

\* result.scalar_one_or_none()
ScalarOneOrNone(matches) ==
    IF matches = {} THEN None ELSE CHOOSE c \in matches : TRUE

\* ChatCRUD.get_chat_by_id
get_chat_by_id(rows, chat_id, user_id) ==
    ScalarOneOrNone(OwnedChatsWithId(rows, chat_id, user_id))

RECURSIVE NewestFirst(_)
\* order_by(desc(Chat.created_at))
NewestFirst(rows) ==
    IF rows = {} THEN <<>>
    ELSE LET newest == CHOOSE c \in rows :
                           \A o \in rows : o.created_at <= c.created_at
         IN <<newest>> \o NewestFirst(rows \ {newest})

\* .limit(limit).offset(offset)
LimitOffset(q, limit, offset) ==
    SubSeq(q, offset + 1, IF offset + limit < Len(q) THEN offset + limit ELSE Len(q))

\* ChatCRUD.get_user_chats
get_user_chats(rows, user_id, limit, offset) ==
    LimitOffset(NewestFirst({ c \in rows : c.user_id = user_id }), limit, offset)

\* ChatCRUD.delete_chat: the bool returned and the table afterwards
crud_delete_chat(rows, chat_id, user_id) ==
    LET chat == ScalarOneOrNone(OwnedChatsWithId(rows, chat_id, user_id)) IN
    IF chat # None
    THEN [result |-> TRUE, rows |-> rows \ {chat}]
    ELSE [result |-> FALSE, rows |-> rows]

\* the defaults of the columns of table user_preferences (the timestamps
\* created_at and updated_at are left out)
ColumnDefaults ==
    [email_notifications |-> TRUE,
     push_notifications |-> TRUE,
     schedule_reminders |-> TRUE,
     daily_summary |-> TRUE,
     new_features |-> FALSE,
     default_work_hours_start |-> "09:00",
     default_work_hours_end |-> "17:00",
     default_break_duration |-> 15,
     default_lunch_duration |-> 60,
     prefer_morning_workouts |-> FALSE,
     include_travel_time |-> TRUE,
     default_schedule_type |-> "daily",
     conversation_style |-> "friendly",
     detail_level |-> "detailed",
     include_explanations |-> TRUE,
     suggest_optimizations |-> TRUE,
     learning_mode |-> TRUE,
     custom_settings |-> <<>>]

\* models.UserPreferences(user_id=user_id) once inserted
PreferencesRow(id, user_id) ==
    [id |-> id, user_id |-> user_id] @@ ColumnDefaults

\* the id SQLite gives a new row of a table: one more than the largest
NextRowId(ids) ==
    IF ids = {} THEN 1 ELSE 1 + CHOOSE i \in ids : \A j \in ids : j <= i

\* UserPreferencesCRUD.get_user_preferences: the rows scalar_one_or_none
\* chooses from
get_user_preferences(prefs, user_id) ==
    { p \in prefs : p.user_id = user_id }

\* UserPreferencesCRUD.create_default_preferences: user_preferences.user_id
\* is unique
create_default_preferences(prefs, user_id) ==
    IF get_user_preferences(prefs, user_id) # {}
    THEN Raise("IntegrityError")
    ELSE Ok(prefs \cup { PreferencesRow(NextRowId({ p.id : p \in prefs }), user_id) })

\* UserCRUD.get_user_by_email: the rows scalar_one_or_none chooses from.  The
\* comparison of the column with the text is that of SQLite, character by
\* character.
get_user_by_email(user_rows, stored, email) ==
    { u \in user_rows : stored[u] = PyStrip(PyLower(email)) }

\* UserCRUD.create_user up to its first commit: users.email is unique
InsertUser(user_rows, stored, email) ==
    IF \E u \in user_rows : stored[u] = email
    THEN Raise("IntegrityError")
    ELSE LET id == NextRowId(user_rows) IN
         Ok([id |-> id, users |-> user_rows \cup {id},
             emails |-> (id :> email) @@ stored])

\* column users.email of the users of a run
EmailsOf(user_rows) ==
    [u \in user_rows |-> "user" \o ToString(u) \o "@example.com"]

\* UserCRUD.create_user, for the users of a run: each has the row of
\* preferences create_default_preferences made for it
DefaultPreferences(user_rows) ==
    { PreferencesRow(u, u) : u \in user_rows }

\* UserCRUD.delete_user: db.delete(user) deletes the user's chats and the
\* user's preferences with it (relationship cascade="all, delete-orphan")
delete_user(user_rows, rows, prefs, user_id) ==
    IF user_id \in user_rows
    THEN [result |-> TRUE,
          users |-> user_rows \ {user_id},
          rows |-> { c \in rows : c.user_id # user_id },
          preferences |-> { p \in prefs : p.user_id # user_id }]
    ELSE [result |-> FALSE, users |-> user_rows, rows |-> rows,
          preferences |-> prefs]

-----------------------------------------------------------------------------
(* The endpoints of app/api/chat.py *)

\* raise HTTPException(status_code=..., detail=...)
HttpError(status, detail) == [status |-> status, detail |-> detail]

\* a value returned by the handler
HttpOk(body) == [status |-> 200, body |-> body]

\* raise HTTPException(status_code=404, detail="Chat not found or ...")
ChatNotFound ==
    HttpError(404, "Chat not found or you don't have permission to delete it")

\* a faulty variant of delete_chat, which tells the caller that the chat is
\* another user's
delete_chat_forbidding(rows, chat_id, current_user) ==
    LET with_id == { c \in rows : c.id = chat_id }
        owned == { c \in with_id : c.user_id = current_user }
    IN IF owned # {}
       THEN [response |-> HttpOk([success |-> TRUE,
                                  message |-> "Chat deleted successfully"]),
             rows |-> rows \ owned]
       ELSE IF with_id # {}
       THEN [response |-> HttpError(403, "Not your chat"), rows |-> rows]
       ELSE [response |-> ChatNotFound, rows |-> rows]

\* DELETE /chat/history/{chat_id}: the response and the table afterwards
delete_chat(rows, chat_id, current_user) ==
    LET chat == ScalarOneOrNone(OwnedChatsWithId(rows, chat_id, current_user)) IN
    IF chat = None
    THEN [response |-> ChatNotFound, rows |-> rows]
    ELSE [response |-> HttpOk([success |-> TRUE,
                               message |-> "Chat deleted successfully"]),
          rows |-> rows \ {chat}]

\* str(uuid.uuid4()) of the request in slot s
Uuid4(s) == "00000000-0000-4000-8000-00000000000" \o ToString(s)

\* the prompts of the model (ChatRequest has stripped them)
Prompts ==
    { "Plan my Monday", "Tell me a joke", "What is a holiday?", "ORGANIZE things",
      "Do not schedule anything" }

\* the documents json.dumps(ai_result) can write into a row
StoredDocuments ==
    { r.value : r \in { chat_with_user(p, Ok(reply), now) :
                            p \in Prompts, reply \in ReplyTexts, now \in Clocks }
                      \cap { r \in { chat_with_user(p, Ok(reply), now) :
                            p \in Prompts, reply \in ReplyTexts, now \in Clocks } :
                             r.ok } }

StoredJson == JsonTable(StoredDocuments)

\* one item of the history response
HistoryItem(chat) ==
    Bind(JsonLoads(chat.response, StoredJson),
         LAMBDA response :
             IF response.t = "map"
             THEN Ok([id |-> chat.id, prompt |-> chat.prompt,
                      response |-> response, created_at |-> chat.created_at])
             ELSE Raise("ValidationError"))

\* GET /chat/history
get_chat_history(rows, current_user, page, per_page) ==
    LET offset == (page - 1) * per_page
        page_chats == get_user_chats(rows, current_user, per_page, offset)
        total_count == Cardinality({ c \in rows : c.user_id = current_user })
        items == [i \in 1..Len(page_chats) |-> HistoryItem(page_chats[i])]
    IN IF \A i \in 1..Len(items) : items[i].ok
       THEN HttpOk([success |-> TRUE,
                    chats |-> [i \in 1..Len(items) |-> items[i].value],
                    total_count |-> total_count,
                    page |-> page,
                    per_page |-> per_page])
       ELSE HttpError(500, "Failed to retrieve chat history")

\* a request slot before its request arrives
IdleRequest ==
    [pc |-> "idle", kind |-> "", user |-> 0, prompt |-> "", chat_id |-> 0,
     completion |-> Raise("pending"), conversation_id |-> "",
     ai_result |-> None, schedule |-> None, chat_record |-> None,
     error |-> "", deleted |-> {}, stats |-> None, response |-> None]

\* the `except Exception as e` handler of create_schedule:
\* HTTPException(500, f"Failed to generate schedule: {str(e)}")
ScheduleFailed(e) == HttpError(500, "Failed to generate schedule: " \o e)

\* a faulty variant of Failed, which sends the submission back to the call of
\* the language model
TryAgain(request, e) ==
    [request EXCEPT !.pc = "model", !.error = e]

\* the handler has caught exception e
Failed(request, e) ==
    [request EXCEPT !.pc = "done", !.error = e, !.response = ScheduleFailed(e)]

\* lines 72-75: schedule = Schedule(**ai_result["schedule"]) when the result
\* has a non-empty "schedule", None otherwise
ExtractSchedule(ai_result) ==
    IF "schedule" \in DOMAIN ai_result.v
       /\ ai_result.v["schedule"] \notin {JNull, JMap(<<>>)}
    THEN ScheduleModel(ai_result.v["schedule"])
    ELSE Ok(None)

\* create_schedule from the answer of the language model to the point where
\* it awaits ChatCRUD.create_chat
AfterModelCall(request, completion, now) ==
    LET ai_result == chat_with_user(request.prompt, completion, now)
        called == [request EXCEPT !.completion = completion]
    IN
    IF ~ai_result.ok THEN Failed(called, ai_result.exc)
    ELSE IF ai_result.value.v["success"] # JBool(TRUE)
    THEN [called EXCEPT !.pc = "done",
                        !.ai_result = ai_result.value,
                        !.response = HttpError(500, "Failed to get response from AI service")]
    ELSE LET schedule == ExtractSchedule(ai_result.value) IN
         IF ~schedule.ok
         THEN Failed([called EXCEPT !.ai_result = ai_result.value], schedule.exc)
         ELSE [called EXCEPT !.pc = "store",
                             !.ai_result = ai_result.value,
                             !.schedule = schedule.value]

\* lines 92-98: the ChatResponse the handler returns
BuildChatResponse(request) ==
    ChatResponseModel(
        DictGet(request.ai_result.v, "message",
                JStr("Response generated successfully")),
        request.schedule,
        JStr(request.conversation_id),
        DictGet(request.ai_result.v, "model_used", JStr("gpt-3.5-turbo")))

\* a faulty variant of AfterCreateChat, which answers with the result although
\* the row was not stored
AnswerWithoutRecord(request, made) ==
    LET built == BuildChatResponse(request) IN
    IF built.ok
    THEN [request EXCEPT !.pc = "done", !.response = HttpOk(built.value)]
    ELSE Failed(request, built.exc)

\* create_schedule after ChatCRUD.create_chat: `made` is the row it returned,
\* or the exception it raised
AfterCreateChat(request, made) ==
    IF ~made.ok THEN Failed(request, made.exc)
    ELSE LET stored == [request EXCEPT !.chat_record = made.value]
             built == BuildChatResponse(request)
         IN IF built.ok
            THEN [stored EXCEPT !.pc = "done", !.response = HttpOk(built.value)]
            ELSE Failed(stored, built.exc)

\* the number of rows inserted so far
Inserted == Cardinality({ s \in Slots : requests[s].chat_record # None })

-----------------------------------------------------------------------------
(* RateLimiter (app/utils/security.py) and RateLimitMiddleware (app/main.py). *)
(* Times are whole seconds.                                                   *)

\* self.limits: for each endpoint type, (limit, window in seconds)
limits ==
    [default |-> <<100, 3600>>,
     auth |-> <<10, 300>>,
     chat |-> <<50, 3600>>,
     user |-> <<200, 3600>>]

EndpointTypes == DOMAIN limits

\* the client keys (IP addresses) of the requests
ClientKeys == { "10.0.0.1" }

\* self.limits.get(endpoint_type, self.limits["default"])
LimitOf(endpoint_type) ==
    IF endpoint_type \in DOMAIN limits THEN limits[endpoint_type]
    ELSE limits["default"]

\* self.requests[key] of a defaultdict(list)
RequestsOf(dict, key) == IF key \in DOMAIN dict THEN dict[key] ELSE <<>>

\* [req_time for req_time in self.requests[key] if now - req_time < window]
CleanOld(times, now, window) ==
    SelectSeq(times, LAMBDA req_time : now - req_time < window)

\* RateLimiter.is_allowed at time now: what it returns and self.requests
\* after the call
is_allowed(dict, key, endpoint_type, now) ==
    LET limit == LimitOf(endpoint_type)[1]
        window == LimitOf(endpoint_type)[2]
        cleaned == CleanOld(RequestsOf(dict, key), now, window)
    IN
    IF Len(cleaned) >= limit
    THEN [allowed |-> FALSE, requests |-> (key :> cleaned) @@ dict]
    ELSE [allowed |-> TRUE, requests |-> (key :> Append(cleaned, now)) @@ dict]

\* RateLimitMiddleware.dispatch: the endpoint type of a path
EndpointTypeOf(path) ==
    IF StartsWith(path, "/api/v1/auth") THEN "auth"
    ELSE IF StartsWith(path, "/api/v1/chat") THEN "chat"
    ELSE IF StartsWith(path, "/api/v1/user") THEN "user"
    ELSE "default"

\* the paths that are not rate limited
UnlimitedPaths == { "/health", "/", "/docs", "/redoc", "/openapi.json" }

\* the paths of the requests of a run
Paths == { "/api/v1/auth/login", "/api/v1/chat/" }

\* the times at which requests arrive
Times == { 0, 301 }

\* RateLimitMiddleware.dispatch for a request of client `key` to `path`:
\* check_rate_limit answers 429 or lets the request through
Dispatch(key, path) ==
    /\ IF path \in UnlimitedPaths
       THEN UNCHANGED <<rate_limiter, admitted>>
       ELSE LET checked == is_allowed(rate_limiter, key, EndpointTypeOf(path), clock)
            IN /\ rate_limiter' = checked.requests
               /\ admitted' =
                      IF checked.allowed
                      THEN [admitted EXCEPT ![<<key, EndpointTypeOf(path)>>] =
                                Append(@, clock)]
                      ELSE admitted
    /\ UNCHANGED <<clock, users, emails, chats, preferences, requests,
                   vIn, vToday, vOut, vpc>>

\* time passes
Tick ==
    /\ \E t \in Times : t > clock /\ clock' = t
    /\ UNCHANGED <<rate_limiter, admitted, users, emails, chats, preferences,
                   requests, vIn, vToday, vOut, vpc>>

\* no request has reached the rate limiter
LimiterIdle ==
    /\ rate_limiter = <<>>
    /\ clock = 0
    /\ admitted = [k \in ClientKeys \X EndpointTypes |-> <<>>]

-----------------------------------------------------------------------------
(* Requests.  Every request of a run takes a slot, in the order of arrival; *)
(* the slot keeps what the request was and what it was answered.             *)

\* slot s is the next free one
Arrives(s) ==
    /\ requests[s].pc = "idle"
    /\ \A t \in Slots : t < s => requests[t].pc # "idle"

\* POST /chat/ arrives from user u: the handler runs up to the call of the
\* language model
Submit(s, u, p) ==
    /\ Arrives(s)
    /\ u \in users
    /\ requests' = [requests EXCEPT ![s] = [IdleRequest EXCEPT !.pc = "model",
                                                   !.kind = "create_schedule",
                                                   !.user = u,
                                                   !.prompt = p,
                                                   !.conversation_id = Uuid4(s)]]
    /\ UNCHANGED <<emails, limiterVars, preferences, users, chats, vIn, vToday, vOut, vpc>>

\* the call of the language model raises
ModelRaises(s) ==
    /\ requests[s].pc = "model"
    /\ \E now \in Clocks :
           requests' = [requests EXCEPT ![s] = AfterModelCall(requests[s], Raise("APIError"), now)]
    /\ UNCHANGED <<emails, limiterVars, preferences, users, chats, vIn, vToday, vOut, vpc>>

\* the call of the language model returns the text `reply`
ModelReturns(s, reply) ==
    /\ requests[s].pc = "model"
    /\ \E now \in Clocks :
           requests' = [requests EXCEPT ![s] = AfterModelCall(requests[s], Ok(reply), now)]
    /\ UNCHANGED <<emails, limiterVars, preferences, users, chats, vIn, vToday, vOut, vpc>>

\* ChatCRUD.create_chat commits and the handler builds its response
StoreCommits(s) ==
    /\ requests[s].pc = "store"
    /\ LET made == create_chat(chats, requests[s].user, requests[s].prompt,
                               JsonDumps(requests[s].ai_result), Inserted + 1)
       IN /\ chats' = made.rows
          /\ requests' = [requests EXCEPT ![s] =
                              AfterCreateChat(requests[s], Ok(made.chat))]
    /\ UNCHANGED <<emails, limiterVars, preferences, users, vIn, vToday, vOut, vpc>>

\* ChatCRUD.create_chat raises (the commit fails): nothing is stored
StoreFails(s) ==
    /\ requests[s].pc = "store"
    /\ requests' = [requests EXCEPT ![s] =
                        AfterCreateChat(requests[s], Raise("SQLAlchemyError"))]
    /\ UNCHANGED <<emails, limiterVars, preferences, users, chats, vIn, vToday, vOut, vpc>>

\* DELETE /chat/history/{chat_id} from user u
DeleteChat(s, u, chat_id) ==
    /\ Arrives(s)
    /\ u \in users
    /\ LET done == delete_chat(chats, chat_id, u)
       IN /\ chats' = done.rows
          /\ requests' = [requests EXCEPT ![s] = [IdleRequest EXCEPT
                          !.pc = "done",
                          !.kind = "delete_chat",
                          !.user = u,
                          !.chat_id = chat_id,
                          !.deleted = chats \ done.rows,
                          !.response = done.response]]
    /\ UNCHANGED <<emails, limiterVars, preferences, users, vIn, vToday, vOut, vpc>>

\* ChatCRUD.delete_chat(db, chat_id, user_id) called for user u
CrudDeleteChat(s, u, chat_id) ==
    /\ Arrives(s)
    /\ u \in users
    /\ LET done == crud_delete_chat(chats, chat_id, u)
       IN /\ chats' = done.rows
          /\ requests' = [requests EXCEPT ![s] = [IdleRequest EXCEPT
                          !.pc = "done",
                          !.kind = "ChatCRUD.delete_chat",
                          !.user = u,
                          !.chat_id = chat_id,
                          !.deleted = chats \ done.rows,
                          !.response = [returned |-> done.result]]]
    /\ UNCHANGED <<emails, limiterVars, preferences, users, vIn, vToday, vOut, vpc>>

\* DELETE /user/account from user u
DeleteAccount(s, u) ==
    /\ Arrives(s)
    /\ u \in users
    /\ LET done == delete_user(users, chats, preferences, u)
       IN /\ users' = done.users
          /\ chats' = done.rows
          /\ preferences' = done.preferences
          /\ emails' = [v \in done.users |-> emails[v]]
          /\ requests' = [requests EXCEPT ![s] = [IdleRequest EXCEPT
                          !.pc = "done",
                          !.kind = "delete_user_account",
                          !.user = u,
                          !.deleted = chats \ done.rows,
                          !.response =
                              IF done.result
                              THEN HttpOk([success |-> TRUE,
                                           message |-> "Account deleted successfully"])
                              ELSE HttpError(500, "Failed to delete account")]]
    /\ UNCHANGED <<limiterVars, vIn, vToday, vOut, vpc>>

\* an event as the validator returned it on 2024-02-28, for a reply that gave
\* its title and its category only
RepairedEvent(title, category) ==
    MkDict([title |-> JStr(title), description |-> JStr(""),
            start_time |-> JStr("09:00"), end_time |-> JStr("10:00"),
            date |-> JStr("2024-02-28"), category |-> JStr(category),
            priority |-> JStr("medium")])

\* a schedule as the validator returned it on 2024-02-28, for a reply that
\* gave its type and its events only
RepairedSchedule(schedule_type, events) ==
    MkDict([schedule_type |-> JStr(schedule_type),
            date_range |-> MkDict([start_date |-> JStr("2024-02-28"),
                                   end_date |-> JStr("2024-02-29")]),
            events |-> JList(events),
            suggestions |-> JList(<<>>)])

\* the schedules chat_with_user returned for the replies ReportDay, CallDay
\* and FreeDay of the language model
HistorySchedules ==
    { RepairedSchedule("daily", <<RepairedEvent("Write report", "work"),
                                  RepairedEvent("Review", "work")>>),
      RepairedSchedule("daily", <<RepairedEvent("Call home", "personal")>>),
      RepairedSchedule("custom", <<>>) }

\* the replies of the language model that were no schedule
HistoryTalk == { "Sure, here is some advice.", "schedule" }

\* the dicts chat_with_user returned for these replies (lines 150-172), which
\* POST /chat/ stored
HistoryDocuments ==
    { ScheduleResult(JStr("I've created a schedule for you!"), schedule, now) :
        schedule \in HistorySchedules, now \in Clocks }
    \cup { ConversationResult(ai_response, now) :
             ai_response \in HistoryTalk, now \in Clocks }

\* the texts of these documents, as json.loads decodes them
HistoryJson == JsonTable(HistoryDocuments)

\* response=json.dumps(ai_result)
HistoryResponses == { JsonDumps(doc) : doc \in HistoryDocuments }

-----------------------------------------------------------------------------
(* Registration and login (app/services/auth_service.py) and the lazy       *)
(* creation of preferences (app/services/user_service.py).  A handler runs   *)
(* from one database call to the next in one step; password hashing and     *)
(* tokens (app/utils/auth.py) are left out.                                  *)

\* the position of the "@" of an email address
AtSign(email) == CHOOSE i \in 1..Len(email) : CharAt(email, i) = "@"

\* pydantic's EmailStr: the validated value is the text without surrounding
\* whitespace, its domain in lower case, its local part as typed
EmailStr(raw) ==
    LET email == PyStrip(raw) IN
    SubSeq(email, 1, AtSign(email))
        \o PyLower(SubSeq(email, AtSign(email) + 1, Len(email)))

\* the email addresses the requests carry
RawEmails == { "bob@example.com", "Bob@Example.com", " bob@example.com " }

\* raise HTTPException(status_code=400, detail="Email already registered")
EmailAlreadyRegistered == HttpError(400, "Email already registered")

\* the except clauses of register_user: IntegrityError becomes 400, every
\* other exception e, HTTPException included, becomes 500 with str(e)
RegisterCaught(exc) ==
    IF exc = "IntegrityError" THEN EmailAlreadyRegistered
    ELSE HttpError(500, "Registration failed: " \o exc)

\* str(e) of the HTTPException of the check for an existing user
StrOfAlreadyRegistered == "400: Email already registered"

\* AuthResponse(user=..., token=..., message=...)
AuthResponse(user_id, email, message) ==
    [user |-> [id |-> user_id, email |-> email], message |-> message]

\* the answer of POST /auth/register: status_code=201
HttpCreated(body) == [status |-> 201, body |-> body]

\* raise HTTPException(status_code=401, detail="Invalid email or password")
InvalidCredentials == HttpError(401, "Invalid email or password")

\* a request to register_user, login_user or get_user_preferences: `owners`
\* are the users whose stored email was the request's email up to letter case
\* and surrounding whitespace when the request looked for it
AuthRequest(pc, kind, email, user, error, response) ==
    [pc |-> pc, kind |-> kind, email |-> email, user |-> user,
     owners |-> { u \in users : PyLower(PyStrip(emails[u])) = PyLower(PyStrip(email)) },
     error |-> error, response |-> response]

\* register_user up to UserCRUD.create_user
register_user(email) ==
    IF get_user_by_email(users, emails, email) # {}
    THEN AuthRequest("done", "register_user", email, 0, "HTTPException",
                     RegisterCaught(StrOfAlreadyRegistered))
    ELSE AuthRequest("create_user", "register_user", email, 0, "", None)

\* login_user
login_user(email, password_verified) ==
    LET found == get_user_by_email(users, emails, email) IN
    IF found = {} \/ ~password_verified
    THEN AuthRequest("done", "login_user", email, 0,
                     IF password_verified THEN "" ELSE "wrong password",
                     InvalidCredentials)
    ELSE LET user == CHOOSE u \in found : TRUE IN
         AuthRequest("done", "login_user", email, user, "",
                     HttpOk(AuthResponse(user, emails[user], "Login successful")))

\* what the handler answers once create_default_preferences has returned or
\* raised: register_user catches the exception, get_user_preferences does not
AfterPreferences(request, made) ==
    [request EXCEPT
        !.pc = "done",
        !.error = IF made.ok THEN "" ELSE made.exc,
        !.response =
            IF request.kind = "register_user"
            THEN IF made.ok
                 THEN HttpCreated(AuthResponse(request.user, request.email,
                                               "User registered successfully"))
                 ELSE RegisterCaught(made.exc)
            ELSE IF made.ok
                 THEN HttpOk([user_id |-> request.user])
                 ELSE HttpError(500, "Internal Server Error")]

\* POST /auth/register arrives with an email
Register(s, raw) ==
    /\ Arrives(s)
    /\ requests' = [requests EXCEPT ![s] = register_user(EmailStr(raw))]
    /\ UNCHANGED <<users, emails, preferences, chats, limiterVars,
                   vIn, vToday, vOut, vpc>>

\* UserCRUD.create_user commits the user row, or the database refuses it
UserCommits(s) ==
    /\ requests[s].pc = "create_user"
    /\ LET made == InsertUser(users, emails, requests[s].email) IN
       IF made.ok
       THEN /\ users' = made.value.users
            /\ emails' = made.value.emails
            /\ requests' = [requests EXCEPT ![s].pc = "create_default_preferences",
                                            ![s].user = made.value.id]
       ELSE /\ requests' = [requests EXCEPT ![s].pc = "done",
                                            ![s].error = made.exc,
                                            ![s].response = RegisterCaught(made.exc)]
            /\ UNCHANGED <<users, emails>>
    /\ UNCHANGED <<preferences, chats, limiterVars, vIn, vToday, vOut, vpc>>

\* UserPreferencesCRUD.create_default_preferences commits the row, or the
\* database refuses it
PreferencesCommit(s) ==
    /\ requests[s].pc = "create_default_preferences"
    /\ LET made == create_default_preferences(preferences, requests[s].user) IN
       /\ preferences' = IF made.ok THEN made.value ELSE preferences
       /\ requests' = [requests EXCEPT ![s] = AfterPreferences(requests[s], made)]
    /\ UNCHANGED <<users, emails, chats, limiterVars, vIn, vToday, vOut, vpc>>

\* the commit of create_default_preferences fails: nothing is stored
PreferencesCommitFails(s) ==
    /\ requests[s].pc = "create_default_preferences"
    /\ requests' = [requests EXCEPT ![s] =
                        AfterPreferences(requests[s], Raise("OperationalError"))]
    /\ UNCHANGED <<users, emails, preferences, chats, limiterVars,
                   vIn, vToday, vOut, vpc>>

\* POST /auth/login arrives with an email; verify_password answers
\* password_verified
Login(s, raw, password_verified) ==
    /\ Arrives(s)
    /\ requests' = [requests EXCEPT ![s] = login_user(EmailStr(raw), password_verified)]
    /\ UNCHANGED <<users, emails, preferences, chats, limiterVars,
                   vIn, vToday, vOut, vpc>>

\* GET /user/preferences from user u: the preferences are created when the
\* user has none
GetPreferences(s, u) ==
    /\ Arrives(s)
    /\ u \in users
    /\ requests' = [requests EXCEPT ![s] =
           IF get_user_preferences(preferences, u) # {}
           THEN AuthRequest("done", "get_user_preferences", emails[u], u, "",
                            HttpOk([user_id |-> u]))
           ELSE AuthRequest("create_default_preferences", "get_user_preferences",
                            emails[u], u, "", None)]
    /\ UNCHANGED <<users, emails, preferences, chats, limiterVars,
                   vIn, vToday, vOut, vpc>>

-----------------------------------------------------------------------------
(* PUT /user/preferences: the request models of app/models/user.py,         *)
(* UserService.update_user_preferences and                                   *)
(* UserPreferencesCRUD.update_user_preferences.  A section of a request body *)
(* is a function from the field names it specifies to their values.          *)

NotificationFields ==
    { "email_notifications", "push_notifications", "schedule_reminders",
      "daily_summary", "new_features" }

ScheduleFields ==
    { "default_work_hours_start", "default_work_hours_end",
      "default_break_duration", "default_lunch_duration",
      "prefer_morning_workouts", "include_travel_time", "default_schedule_type" }

AIFields ==
    { "conversation_style", "detail_level", "include_explanations",
      "suggest_optimizations", "learning_mode" }

\* the fields of a section
SectionFields ==
    [notifications |-> NotificationFields, schedule |-> ScheduleFields,
     ai |-> AIFields]

\* the text is a run of decimal digits
IsDigits(text) ==
    Len(text) > 0 /\ \A i \in 1..Len(text) : CharAt(text, i) \in DigitChars

RECURSIVE DigitsValue(_)
\* int(text) of a run of decimal digits
DigitsValue(text) ==
    IF Len(text) = 0 THEN 0
    ELSE 10 * DigitsValue(SubSeq(text, 1, Len(text) - 1))
         + (CHOOSE n \in 0..9 : ToString(n) = CharAt(text, Len(text)))

\* hour, minute = map(int, v.split(':')): ValueError unless there are two
\* parts and both are numbers
SplitTime(v) ==
    LET colons == { i \in 1..Len(v) : CharAt(v, i) = ":" } IN
    IF Cardinality(colons) # 1 THEN Raise("ValueError")
    ELSE LET i == CHOOSE j \in colons : TRUE
             hour == SubSeq(v, 1, i - 1)
             minute == SubSeq(v, i + 1, Len(v))
         IN IF IsDigits(hour) /\ IsDigits(minute)
            THEN Ok([hour |-> DigitsValue(hour), minute |-> DigitsValue(minute)])
            ELSE Raise("ValueError")

\* SchedulePreferences.validate_time_format
validate_time_format(v) ==
    LET parts == SplitTime(v) IN
    IF ~parts.ok THEN parts
    ELSE IF parts.value.hour <= 23 /\ parts.value.minute <= 59
    THEN Ok(Pad2(parts.value.hour) \o ":" \o Pad2(parts.value.minute))
    ELSE Raise("ValueError")

\* UserValidationService.validate_work_hours
validate_work_hours(start_time, end_time) ==
    LET start == SplitTime(start_time)
        end == SplitTime(end_time)
    IN
    IF ~start.ok \/ ~end.ok THEN <<FALSE, "Invalid time format">>
    ELSE LET start_minutes == start.value.hour * 60 + start.value.minute
             end_minutes == end.value.hour * 60 + end.value.minute
         IN IF end_minutes <= start_minutes
            THEN <<FALSE, "End time must be after start time">>
            ELSE IF end_minutes - start_minutes > 16 * 60
            THEN <<FALSE, "Work day cannot exceed 16 hours">>
            ELSE <<TRUE, "Valid">>

\* a section model built from the fields the body specifies: every other
\* field takes the default of its Field(...)
SectionModel(section, given) ==
    [f \in SectionFields[section] |->
        IF f \in DOMAIN given THEN given[f] ELSE ColumnDefaults[f]]

\* the constraints of the fields of SchedulePreferences and AIPreferences
\* (ge, le, Literal) and the validator of the two work hours
ValidateSection(section, model) ==
    IF section = "schedule"
    THEN LET start == validate_time_format(model["default_work_hours_start"])
             end == validate_time_format(model["default_work_hours_end"])
         IN IF /\ start.ok /\ end.ok
               /\ model["default_break_duration"] \in 5..120
               /\ model["default_lunch_duration"] \in 15..180
               /\ model["default_schedule_type"] \in {"daily", "weekly"}
            THEN Ok([model EXCEPT !["default_work_hours_start"] = start.value,
                                  !["default_work_hours_end"] = end.value])
            ELSE Raise("ValidationError")
    ELSE IF section = "ai"
    THEN IF /\ model["conversation_style"] \in {"professional", "casual", "friendly"}
            /\ model["detail_level"] \in {"brief", "detailed", "comprehensive"}
         THEN Ok(model)
         ELSE Raise("ValidationError")
    ELSE Ok(model)

\* the sections a body provides
ProvidedSections(body) == DOMAIN body \cap DOMAIN SectionFields

\* UserPreferencesUpdate(**body): the section models of the sections the body
\* provides, and custom_settings if the body has it
UserPreferencesUpdate(body) ==
    LET models == [section \in ProvidedSections(body) |->
                       ValidateSection(section, SectionModel(section, body[section]))]
    IN IF \E section \in DOMAIN models : ~models[section].ok
       THEN Raise("ValidationError")
       ELSE Ok([name \in DOMAIN body |->
                   IF name \in DOMAIN models THEN models[name].value
                   ELSE body[name]])

RECURSIVE MergeDumps(_, _)
\* update_data.update(section.model_dump()) for the sections present
MergeDumps(update, names) ==
    IF names = {} THEN <<>>
    ELSE LET name == CHOOSE n \in names : TRUE IN
         update[name] @@ MergeDumps(update, names \ {name})

\* UserService.update_user_preferences, "Prepare update data"
UpdateData(update) ==
    MergeDumps(update, ProvidedSections(update))
        @@ [name \in DOMAIN update \cap {"custom_settings"} |-> update[name]]

\* UserPreferencesCRUD.update_user_preferences: the table after
\* update(...).where(user_id == user_id).values(**filtered_data)
update_user_preferences(prefs, user_id, update_data) ==
    { IF p.user_id = user_id THEN update_data @@ p ELSE p : p \in prefs }

\* UserService.update_user_preferences: the answer and the table after it
UpdateUserPreferences(user_rows, prefs, user_id, update) ==
    IF user_id \notin user_rows
    THEN [response |-> HttpError(404, "User not found"), preferences |-> prefs]
    ELSE LET existing ==
                 IF get_user_preferences(prefs, user_id) = {}
                 THEN create_default_preferences(prefs, user_id).value
                 ELSE prefs
             updated == update_user_preferences(existing, user_id, UpdateData(update))
         IN [response |-> HttpOk([user_id |-> user_id,
                                  preferences |->
                                      CHOOSE p \in updated : p.user_id = user_id]),
             preferences |-> updated]

\* the request bodies of a run
UpdateBodies ==
    { <<>>,
      [notifications |-> [email_notifications |-> FALSE]],
      [notifications |-> [push_notifications |-> FALSE]],
      [schedule |-> [default_work_hours_start |-> "08:30",
                     default_work_hours_end |-> "16:30",
                     prefer_morning_workouts |-> TRUE]],
      [schedule |-> [default_work_hours_start |-> "17:00",
                     default_work_hours_end |-> "09:00"]],
      [schedule |-> [default_work_hours_start |-> "0:00",
                     default_work_hours_end |-> "23:59"]],
      [schedule |-> [default_work_hours_end |-> "25:00"]],
      [schedule |-> [default_break_duration |-> 30]],
      [ai |-> [conversation_style |-> "professional", detail_level |-> "brief"]],
      [ai |-> [conversation_style |-> "formal"]],
      [custom_settings |-> [theme |-> "dark"]],
      [notifications |-> [daily_summary |-> FALSE],
       custom_settings |-> [language |-> "en"]] }

\* PUT /user/preferences from user u with a body: FastAPI answers 422 to a
\* body its model rejects
UpdatePreferences(s, u, body) ==
    /\ Arrives(s)
    /\ u \in users
    /\ LET update == UserPreferencesUpdate(body)
           done == IF update.ok
                   THEN UpdateUserPreferences(users, preferences, u, update.value)
                   ELSE [response |-> HttpError(422, "Unprocessable Entity"),
                         preferences |-> preferences]
       IN /\ preferences' = done.preferences
          /\ requests' = [requests EXCEPT ![s] =
                 [pc |-> "done", kind |-> "update_user_preferences", user |-> u,
                  body |-> body, response |-> done.response]]
    /\ UNCHANGED <<users, emails, chats, limiterVars, vIn, vToday, vOut, vpc>>

-----------------------------------------------------------------------------
(* UserCRUD.get_user_stats, _get_category_usage and _calculate_avg_events *)

\* the rows of a user in one of the orders a SELECT without ORDER BY may
\* return them in
RECURSIVE RowOrders(_)
RowOrders(rows) ==
    IF rows = {} THEN { <<>> }
    ELSE UNION { { <<c>> \o rest : rest \in RowOrders(rows \ {c}) } : c \in rows }

\* select(Chat.response).where(Chat.user_id == user_id)
SelectResponses(rows, user_id) ==
    RowOrders({ c \in rows : c.user_id = user_id })

\* the texts LIKE of SQLite takes for p: those that differ from p in the case
\* of ASCII letters only
RECURSIVE CaseVariants(_)
CaseVariants(p) ==
    IF Len(p) = 0 THEN { "" }
    ELSE LET c == CharAt(p, 1)
             upper == IF \E i \in 1..Len(LowerChars) : LowerChars[i] = c
                      THEN UpperChars[CHOOSE i \in 1..Len(LowerChars) :
                                          LowerChars[i] = c]
                      ELSE c
         IN { head \o rest : head \in {LowerChar(c), upper},
                             rest \in CaseVariants(SubSeq(p, 2, Len(p))) }

\* what LIKE takes for "schedule" in double quotes
QuotedSchedule == CaseVariants("\"schedule\"")

\* Chat.response.like('%"schedule"%')
LikeSchedule(response) ==
    \E i \in 1..(Len(response) - Len("\"schedule\"") + 1) :
        SubSeq(response, i, i + Len("\"schedule\"") - 1) \in QuotedSchedule

\* func.count(Chat.id) over the rows of the user whose response is LIKE
\* '%"schedule"%'
schedule_count(rows, user_id) ==
    Cardinality({ c \in rows : c.user_id = user_id /\ LikeSchedule(c.response) })

\* 'schedule' in response_data and 'events' in response_data['schedule']
HasScheduleEvents(response_data) ==
    Bind(PyIn("schedule", response_data),
         LAMBDA has_schedule :
             IF has_schedule
             THEN Bind(PyGetItem(response_data, "schedule"),
                       LAMBDA schedule : PyIn("events", schedule))
             ELSE Ok(FALSE))

\* response_data['schedule']['events']
ScheduleEvents(response_data) ==
    Bind(PyGetItem(response_data, "schedule"),
         LAMBDA schedule : PyGetItem(schedule, "events"))

\* except (json.JSONDecodeError, KeyError, TypeError): continue
ScanCaught == { "JSONDecodeError", "KeyError", "TypeError" }

\* category_counts[category] = category_counts.get(category, 0) + 1, on a
\* dict kept as the sequence of its items in insertion order
CountCategory(category_counts, category) ==
    IF \E i \in 1..Len(category_counts) : category_counts[i].key = category
    THEN [i \in 1..Len(category_counts) |->
             IF category_counts[i].key = category
             THEN [category_counts[i] EXCEPT !.count = @ + 1]
             ELSE category_counts[i]]
    ELSE Append(category_counts, [key |-> category, count |-> 1])

\* the loop over the events of one response, from the i-th event on: the
\* counts when the loop ends, and the exception that ended it ("" for none)
RECURSIVE CountEvents(_, _, _)
CountEvents(events, i, category_counts) ==
    IF i > Len(events) THEN [counts |-> category_counts, exc |-> ""]
    ELSE LET category == PyGet(events[i], "category", JStr("unknown")) IN
         IF ~category.ok
         THEN [counts |-> category_counts, exc |-> category.exc]
         ELSE IF category.value.t \in {"list", "map"}
         THEN [counts |-> category_counts, exc |-> "TypeError"]
         ELSE CountEvents(events, i + 1,
                          CountCategory(category_counts, category.value))

\* the body of the loop of _get_category_usage for one response
CountResponse(response, category_counts) ==
    LET response_data == JsonLoads(response, HistoryJson)
        has == Bind(response_data, HasScheduleEvents)
        events == Bind(Bind(response_data, ScheduleEvents), PyIter)
    IN IF ~has.ok THEN [counts |-> category_counts, exc |-> has.exc]
       ELSE IF ~has.value THEN [counts |-> category_counts, exc |-> ""]
       ELSE IF ~events.ok THEN [counts |-> category_counts, exc |-> events.exc]
       ELSE CountEvents(events.value, 1, category_counts)

\* the loop of _get_category_usage from the i-th scanned row on
RECURSIVE ScanCategories(_, _, _)
ScanCategories(scanned, i, category_counts) ==
    IF i > Len(scanned) THEN Ok(category_counts)
    ELSE LET step == CountResponse(scanned[i].response, category_counts) IN
         IF step.exc = "" \/ step.exc \in ScanCaught
         THEN ScanCategories(scanned, i + 1, step.counts)
         ELSE Raise(step.exc)

\* UserCRUD._get_category_usage, on the rows its query returned
_get_category_usage(scanned) == ScanCategories(scanned, 1, <<>>)

\* len(x)
PyLen(x) ==
    CASE x.t \in {"list", "str"} -> Ok(Len(x.v))
      [] x.t = "map" -> Ok(Cardinality(DOMAIN x.v))
      [] OTHER -> Raise("TypeError")

\* the body of the loop of _calculate_avg_events for one response: what it
\* adds to total_events and to schedule_count
EventsOfResponse(response) ==
    LET response_data == JsonLoads(response, HistoryJson)
        has == Bind(response_data, HasScheduleEvents)
        length == Bind(Bind(response_data, ScheduleEvents), PyLen)
    IN IF ~has.ok THEN Raise(has.exc)
       ELSE IF ~has.value THEN Ok([events |-> 0, schedules |-> 0])
       ELSE IF ~length.ok THEN Raise(length.exc)
       ELSE Ok([events |-> length.value, schedules |-> 1])

\* the loop of _calculate_avg_events from the i-th scanned row on
RECURSIVE ScanEvents(_, _, _, _)
ScanEvents(scanned, i, total_events, schedules) ==
    IF i > Len(scanned)
    THEN Ok([total_events |-> total_events, schedule_count |-> schedules])
    ELSE LET step == EventsOfResponse(scanned[i].response) IN
         IF step.ok
         THEN ScanEvents(scanned, i + 1, total_events + step.value.events,
                         schedules + step.value.schedules)
         ELSE IF step.exc \in ScanCaught
         THEN ScanEvents(scanned, i + 1, total_events, schedules)
         ELSE Raise(step.exc)

RECURSIVE Gcd(_, _)
Gcd(a, b) == IF b = 0 THEN a ELSE Gcd(b, a % b)

\* the float a / b, kept as the fraction in lowest terms
TrueDiv(a, b) ==
    IF b = 0 THEN Raise("ZeroDivisionError")
    ELSE Ok([num |-> a \div Gcd(a, b), den |-> b \div Gcd(a, b)])

\* the float 0.0
ZeroFloat == [num |-> 0, den |-> 1]

\* a faulty variant of _calculate_avg_events, which divides without looking
\* at schedule_count
divide_unguarded(scanned) ==
    Bind(ScanEvents(scanned, 1, 0, 0),
         LAMBDA sums : TrueDiv(sums.total_events, sums.schedule_count))

\* UserCRUD._calculate_avg_events, on the rows its query returned
_calculate_avg_events(scanned) ==
    Bind(ScanEvents(scanned, 1, 0, 0),
         LAMBDA sums :
             IF sums.schedule_count > 0
             THEN TrueDiv(sums.total_events, sums.schedule_count)
             ELSE Ok(ZeroFloat))

\* a faulty variant of MaxByCount, which lets the last of the keys with the
\* greatest count win
LastByCount(category_usage) ==
    LET best == CHOOSE i \in 1..Len(category_usage) :
                    /\ \A j \in 1..Len(category_usage) :
                           category_usage[j].count <= category_usage[i].count
                    /\ \A j \in (i + 1)..Len(category_usage) :
                           category_usage[j].count < category_usage[i].count
    IN category_usage[best].key

\* max(category_usage, key=category_usage.get): the first key, in the order
\* of the dict, whose count no other key exceeds
MaxByCount(category_usage) ==
    LET best == CHOOSE i \in 1..Len(category_usage) :
                    /\ \A j \in 1..Len(category_usage) :
                           category_usage[j].count <= category_usage[i].count
                    /\ \A j \in 1..(i - 1) :
                           category_usage[j].count < category_usage[i].count
    IN category_usage[best].key

\* func.max(Chat.created_at) over the rows of the user, None when there are
\* none
LastActivity(rows, user_id) ==
    IF { c \in rows : c.user_id = user_id } = {} THEN None
    ELSE LET mine == { c.created_at : c \in { r \in rows : r.user_id = user_id } }
         IN [t |-> "num", v |-> CHOOSE t \in mine : \A o \in mine : o <= t]

\* the first query of get_user_stats: count(Chat.id) and max(Chat.created_at)
\* over the rows of the user
chat_stats(rows, user_id) ==
    [total_chats |-> Cardinality({ c \in rows : c.user_id = user_id }),
     last_activity |-> LastActivity(rows, user_id)]

\* UserCRUD.get_user_stats, on what its queries returned: stats and schedules
\* are the two counts, scanned is the rows of the user in the order in which
\* the query of _get_category_usage and of _calculate_avg_events, the same
\* SELECT in the same session, returns them.  The dict is {} for a user that
\* does not exist; account_age_days, which is read from the clock and the
\* user row alone, is left out.
get_user_stats(user_rows, user_id, stats, schedules, scanned) ==
    IF user_id \notin user_rows THEN Ok([found |-> FALSE])
    ELSE Bind(_get_category_usage(scanned),
         LAMBDA category_usage :
             Bind(_calculate_avg_events(scanned),
                  LAMBDA average :
                      Ok([found |-> TRUE,
                          total_chats |-> stats.total_chats,
                          total_schedules |-> schedules,
                          last_activity |-> stats.last_activity,
                          most_used_category |->
                              IF category_usage # <<>>
                              THEN MaxByCount(category_usage) ELSE None,
                          category_usage |-> category_usage,
                          average_events_per_schedule |-> average])))

\* UserStatsResponse(**stats): the fields of the model, with their defaults
\* for the keys stats lacks; category_usage is no field of the model
UserStatsResponse(stats) ==
    IF ~stats.found
    THEN Ok([total_chats |-> 0, total_schedules |-> 0,
             average_events_per_schedule |-> ZeroFloat,
             most_used_category |-> None, last_activity |-> None])
    ELSE IF stats.most_used_category.t \notin {"str", "null"}
    THEN Raise("ValidationError")
    ELSE Ok([total_chats |-> stats.total_chats,
             total_schedules |-> stats.total_schedules,
             average_events_per_schedule |-> stats.average_events_per_schedule,
             most_used_category |-> stats.most_used_category,
             last_activity |-> stats.last_activity])

\* UserService.get_user_stats, as the endpoint answers it: 404 for a user
\* that does not exist, 500 for an exception nothing catches
StatsResponse(user_rows, user_id, stats) ==
    IF user_id \notin user_rows THEN HttpError(404, "User not found")
    ELSE LET built == Bind(stats, UserStatsResponse) IN
         IF built.ok THEN HttpOk(built.value)
         ELSE HttpError(500, "Internal Server Error")

\* GET /user/stats from user u; the scans see the rows of u in the order
\* scanned
GetStats(s, u) ==
    /\ Arrives(s)
    /\ u \in users
    /\ LET counted == chat_stats(chats, u)
           schedules == schedule_count(chats, u)
       IN \E scanned \in SelectResponses(chats, u) :
           LET stats == get_user_stats(users, u, counted, schedules, scanned)
           IN requests' = [requests EXCEPT ![s] = [IdleRequest EXCEPT
                               !.pc = "done",
                               !.kind = "get_user_statistics",
                               !.user = u,
                               !.stats = stats,
                               !.response = StatsResponse(users, u, stats)]]
    /\ UNCHANGED <<emails, limiterVars, preferences, users, chats, vIn, vToday, vOut, vpc>>

\* the prompts and the reply of the runs with several users and requests
MainPrompts == { "Plan my Monday", "Tell me a joke" }

MainReplies ==
    { JsonDumps(MkDict([schedule_type |-> JStr("weekly"),
                        events |-> JList(<<MkDict([title |-> JStr("Standup")])>>)])) }

-----------------------------------------------------------------------------
(* The validator's inputs: dicts whose fields are absent or of any JSON     *)
(* type, and values that are no dict at all.                                *)

\* the dates on which a validator run takes place
Todays == { [y |-> 2024, m |-> 2, d |-> 28], [y |-> 2025, m |-> 12, d |-> 31] }

EventElements ==
    { MkDict([title |-> JStr("Standup")]),
      MkDict([title |-> JStr("Gym"), description |-> JStr("Leg day"),
              start_time |-> JStr("07:30"), end_time |-> JStr("08:15"),
              date |-> JStr("2024-03-01"), category |-> JStr("health"),
              priority |-> JStr("high")]),
      MkDict([description |-> JStr("no title"), category |-> JStr("work")]),
      JStr("lunch"),
      MkDict([title |-> JNum(7), start_time |-> JStr("9am"), date |-> JNull,
              category |-> JStr("fun"), priority |-> JNum(3)]) }

EventLists == UNION { [1..n -> EventElements] : n \in 0..MaxEvents }

ScheduleTypeValues ==
    { Absent, JStr("daily"), JStr("weekly"), JStr("custom"), JStr("monthly"), JNum(1) }

DateRangeValues ==
    { Absent,
      MkDict([start_date |-> JStr("2024-03-01"), end_date |-> JStr("2024-03-07")]),
      MkDict([start_date |-> JStr("2024-03-01")]),
      JStr("next week"),
      MkDict([start_date |-> JStr("tomorrow"), end_date |-> JNum(5)]) }

EventsValues == { Absent, JStr("none"), JNum(3) } \cup { JList(q) : q \in EventLists }

SuggestionsValues ==
    { Absent, JList(<<JStr("Drink water"), JStr("Take breaks")>>),
      JList(<<JStr("Drink water"), JNum(2)>>), JStr("rest") }

ScheduleDicts ==
    { MkDict([schedule_type |-> a, date_range |-> b, events |-> c,
              suggestions |-> d]) :
        a \in ScheduleTypeValues, b \in DateRangeValues, c \in EventsValues,
        d \in SuggestionsValues }

NonDictValues ==
    { JList(<<>>),
      JList(<<JStr("schedule_type"), JStr("date_range"), JStr("events")>>),
      JStr("hello"), JStr("schedule_type date_range events"),
      JNum(7), JBool(TRUE), JNull }

ValidatorInputs == ScheduleDicts \cup NonDictValues

-----------------------------------------------------------------------------
(* Validator runs: a call of _validate_schedule_response on one input, and *)
(* a second call on what the first returned                                *)

InitValidate ==
    /\ vIn \in ValidatorInputs
    /\ vToday \in Todays
    /\ vOut = Raise("not called")
    /\ vpc = "call"
    /\ users = {}
    /\ emails = EmailsOf({})
    /\ preferences = {}
    /\ chats = {}
    /\ requests = [s \in Slots |-> IdleRequest]
    /\ LimiterIdle

CallValidator ==
    /\ vpc = "call"
    /\ vOut' = _validate_schedule_response(vIn, vToday)
    /\ vpc' = IF vOut'.ok THEN "returned" ELSE "raised"
    /\ UNCHANGED <<emails, limiterVars, preferences, vIn, vToday, users, chats, requests>>

\* the dict the call returned is validated again, on the same day
CallValidatorAgain ==
    /\ vpc = "returned"
    /\ vIn' = vOut.value
    /\ vOut' = _validate_schedule_response(vOut.value, vToday)
    /\ vpc' = IF vOut'.ok THEN "returned again" ELSE "raised again"
    /\ UNCHANGED <<emails, limiterVars, preferences, vToday, users, chats, requests>>

NextValidate == CallValidator \/ CallValidatorAgain

SpecValidate == InitValidate /\ [][NextValidate]_vars

-----------------------------------------------------------------------------
(* The service: users 1 and 2 are registered, table chats is empty, and      *)
(* requests of both arrive in any order; the requests to POST /chat/ run      *)
(* concurrently.                                                              *)

ValidatorIdle ==
    /\ LimiterIdle
    /\ vIn = JNull
    /\ vToday = CHOOSE d \in Todays : TRUE
    /\ vOut = Raise("not called")
    /\ vpc = "off"

Init ==
    /\ users = UserIds
    /\ emails = EmailsOf(UserIds)
    /\ preferences = DefaultPreferences(UserIds)
    /\ chats = {}
    /\ requests = [s \in Slots |-> IdleRequest]
    /\ ValidatorIdle

Next ==
    \/ \E s \in Slots, u \in UserIds, p \in MainPrompts : Submit(s, u, p)
    \/ \E s \in Slots : ModelRaises(s)
    \/ \E s \in Slots, reply \in MainReplies : ModelReturns(s, reply)
    \/ \E s \in Slots : StoreCommits(s)
    \/ \E s \in Slots : StoreFails(s)
    \/ \E s \in Slots, u \in UserIds, chat_id \in ChatIds : DeleteChat(s, u, chat_id)
    \/ \E s \in Slots, u \in UserIds, chat_id \in ChatIds : CrudDeleteChat(s, u, chat_id)
    \/ \E s \in Slots, u \in UserIds : DeleteAccount(s, u)

Spec == Init /\ [][Next]_vars

-----------------------------------------------------------------------------
(* One request to POST /chat/ on its own, over every prompt and every reply *)

InitChat ==
    /\ users = {1}
    /\ emails = EmailsOf({1})
    /\ preferences = DefaultPreferences({1})
    /\ chats = {}
    /\ requests = [s \in Slots |-> IdleRequest]
    /\ ValidatorIdle

NextChat ==
    \/ \E p \in Prompts : Submit(1, 1, p)
    \/ ModelRaises(1)
    \/ \E reply \in ReplyTexts : ModelReturns(1, reply)
    \/ StoreCommits(1)
    \/ StoreFails(1)

SpecChat == InitChat /\ [][NextChat]_vars

-----------------------------------------------------------------------------
(* One request to GET /user/stats on its own, over the histories of up to   *)
(* MaxRows records of two users                                              *)

\* the tables of n records: ids and times of creation in the order of
\* insertion, each record of either user
ChatTables(n) ==
    { { [id |-> i, user_id |-> owner[i], prompt |-> "Plan my Monday",
         response |-> response[i], created_at |-> i] : i \in 1..n } :
        owner \in [1..n -> UserIds], response \in [1..n -> HistoryResponses] }

Histories == UNION { ChatTables(n) : n \in 0..MaxRows }

InitStats ==
    /\ users = UserIds
    /\ emails = EmailsOf(UserIds)
    /\ preferences = DefaultPreferences(UserIds)
    /\ chats \in Histories
    /\ requests = [s \in Slots |-> IdleRequest]
    /\ ValidatorIdle

NextStats == \E u \in UserIds : GetStats(1, u)

SpecStats == InitStats /\ [][NextStats]_vars

-----------------------------------------------------------------------------
(* The rate limiter on its own: requests of one client arrive at the paths   *)
(* of two endpoint types while time passes.                                  *)

InitRate ==
    /\ users = UserIds
    /\ emails = EmailsOf(UserIds)
    /\ preferences = DefaultPreferences(UserIds)
    /\ chats = {}
    /\ requests = [s \in Slots |-> IdleRequest]
    /\ ValidatorIdle

NextRate ==
    \/ \E key \in ClientKeys, path \in Paths : Dispatch(key, path)
    \/ Tick

SpecRate == InitRate /\ [][NextRate]_vars

-----------------------------------------------------------------------------
(* Registration, login and reading of preferences: no user is registered,   *)
(* and the requests run concurrently.                                        *)

InitAuth ==
    /\ users = {}
    /\ emails = EmailsOf({})
    /\ preferences = {}
    /\ chats = {}
    /\ requests = [s \in Slots |-> IdleRequest]
    /\ ValidatorIdle

NextAuth ==
    \/ \E s \in Slots, raw \in RawEmails : Register(s, raw)
    \/ \E s \in Slots : UserCommits(s)
    \/ \E s \in Slots : PreferencesCommit(s)
    \/ \E s \in Slots : PreferencesCommitFails(s)
    \/ \E s \in Slots, raw \in RawEmails, verified \in BOOLEAN : Login(s, raw, verified)
    \/ \E s \in Slots, u \in UserIds : GetPreferences(s, u)

SpecAuth == InitAuth /\ [][NextAuth]_vars

-----------------------------------------------------------------------------
(* Updates of the preferences: users 1 and 2 are registered with their       *)
(* default preferences and send PUT /user/preferences one after another.     *)

InitPrefs ==
    /\ users = UserIds
    /\ emails = EmailsOf(UserIds)
    /\ preferences = DefaultPreferences(UserIds)
    /\ chats = {}
    /\ requests = [s \in Slots |-> IdleRequest]
    /\ ValidatorIdle

NextPrefs ==
    \E s \in Slots, u \in UserIds, body \in UpdateBodies : UpdatePreferences(s, u, body)

SpecPrefs == InitPrefs /\ [][NextPrefs]_vars

-----------------------------------------------------------------------------
(* Properties of the validator, checked on SpecValidate *)

ValidatorCalled == vpc \in {"returned", "raised"}

\* C2, as stated: for every JSON-decoded input value, a dict or not,
\* _validate_schedule_response returns a result and never raises.
C2_NeverRaises == vpc # "raised"

\* C2, amended: _validate_schedule_response returns a result and never raises
\* for every input that is a dict, whatever the types of its fields; for an
\* input that is no dict (a list, a str, a number, a bool, None) it raises
\* TypeError.
C2_ReturnsForEveryDict ==
    ValidatorCalled =>
        IF vIn.t = "map"
        THEN vpc = "returned" /\ vOut.ok /\ vOut.value.t = "map"
        ELSE vpc = "raised" /\ vOut = Raise("TypeError")

\* a dict whose fields all have the wrong type has been validated
C2_Witness ==
    /\ vpc = "returned"
    /\ vIn.t = "map"
    /\ DOMAIN vIn.v = {"schedule_type", "date_range", "events", "suggestions"}
    /\ vIn.v["schedule_type"].t = "num"
    /\ vIn.v["date_range"].t = "str"
    /\ vIn.v["events"].t = "num"
    /\ vIn.v["suggestions"].t = "str"
    /\ vOut.value.v["events"] = JList(<<>>)

\* the elements of the input's events, when it is a list
InputEvents ==
    IF vIn.t = "map" /\ "events" \in DOMAIN vIn.v /\ vIn.v["events"].t = "list"
    THEN vIn.v["events"].v
    ELSE <<>>

\* the elements that are mappings with a "title" key, in their order
TitledMappings(elems) ==
    SelectSeq(elems, LAMBDA e : e.t = "map" /\ "title" \in DOMAIN e.v)

\* C10: for every input dict, the output's events are the input's elements
\* that are mappings with a "title" key, in their original order (each with
\* the title of the element it comes from), every other element is dropped,
\* so the output is no longer than the input and every output event has a
\* title; an events value that is no list gives no events.
C10_EventsAreTheTitledMappings ==
    (ValidatorCalled /\ vIn.t = "map") =>
        /\ vOut.ok
        /\ vOut.value.v["events"].t = "list"
        /\ LET out == vOut.value.v["events"].v
               kept == TitledMappings(InputEvents)
           IN /\ Len(out) = Len(kept)
              /\ Len(out) <= Len(InputEvents)
              /\ \A i \in 1..Len(out) :
                     /\ out[i].t = "map"
                     /\ "title" \in DOMAIN out[i].v
                     /\ out[i].v["title"] = JStr(PyStr(kept[i].v["title"]))

\* a list of the longest length has lost an element and kept another
C10_Witness ==
    /\ vpc = "returned"
    /\ Len(InputEvents) = MaxEvents
    /\ Len(vOut.value.v["events"].v) = MaxEvents - 1
    /\ \E i \in 1..Len(InputEvents) : InputEvents[i].t # "map"

-----------------------------------------------------------------------------
(* Properties of a chat submission *)

\* the requests to POST /chat/
Submissions == { s \in Slots : requests[s].kind = "create_schedule" }

\* the submissions whose call of the language model returned a reply
Answered == { s \in Submissions : requests[s].completion.ok }

\* the rows the submissions have stored
StoredRecords ==
    { requests[s].chat_record : s \in { t \in Submissions :
                                            requests[t].chat_record # None } }

\* C1, as stated: whenever the call of the language model returns a reply,
\* whatever the reply text, create_schedule answers with a success response
\* (unless storing the row fails): malformed model output is never surfaced
\* as an error.
C1_ReplyNeverAnError ==
    \A s \in Answered :
        (requests[s].pc = "done" /\ requests[s].error # "SQLAlchemyError") =>
            /\ requests[s].error = ""
            /\ requests[s].response.status = 200

\* C3: when the call of the language model raises, chat_with_user raises (no
\* result, partial or not, reaches the handler), the endpoint answers with an
\* error, and no row is stored for the submission.
C3_ModelErrorFailsTheSubmission ==
    \A s \in Submissions :
        requests[s].completion = Raise("APIError") =>
            /\ requests[s].pc = "done"
            /\ requests[s].ai_result = None
            /\ requests[s].schedule = None
            /\ requests[s].response = ScheduleFailed("Exception")
            /\ requests[s].chat_record = None
            /\ chats \subseteq StoredRecords

\* the call of the language model raised for one submission of a user while
\* another submission of the same user stored its row
C3_Witness ==
    \E s, t \in Submissions :
        /\ requests[s].completion = Raise("APIError")
        /\ requests[s].pc = "done"
        /\ requests[t].user = requests[s].user
        /\ requests[t].chat_record \in chats

\* C4, as stated: when storing the row fails after the call of the language
\* model succeeded, the user still receives the generated result (a success
\* response for a result that was never saved).
C4_ResultDespiteFailedStore ==
    \A s \in Submissions :
        requests[s].error = "SQLAlchemyError" => requests[s].response.status = 200

\* C4, amended: when storing the row fails after the call of the language
\* model succeeded, the failure is not retried, the endpoint answers with an
\* error (HTTP 500) in place of the generated result, and no row is stored for
\* the submission: a success response is only given once the row is stored.
C4_FailedStoreIsAnError ==
    \A s \in Submissions :
        /\ requests[s].error = "SQLAlchemyError" =>
               /\ requests[s].pc = "done"
               /\ requests[s].response = ScheduleFailed("SQLAlchemyError")
               /\ requests[s].chat_record = None
               /\ chats \subseteq StoredRecords
        /\ (requests[s].pc = "done" /\ requests[s].response.status = 200) =>
               requests[s].chat_record # None

\* storing failed for a submission whose result carries a schedule
C4_Witness ==
    \E s \in Answered :
        /\ requests[s].error = "SQLAlchemyError"
        /\ requests[s].schedule # None
        /\ requests[s].response.status = 500

\* the reply begins with "{" once its leading whitespace is ignored
BeginsWithBrace(reply) ==
    \E i \in 1..Len(reply) :
        /\ CharAt(reply, i) = "{"
        /\ \A j \in 1..(i - 1) : CharAt(reply, j) \in WhitespaceChars

\* the reply parses as JSON, to an object with the keys "schedule_type" and
\* "events"
ParsesToSchedule(reply) ==
    LET parsed == JsonLoads(reply, ReplyJson) IN
    /\ parsed.ok
    /\ parsed.value.t = "map"
    /\ {"schedule_type", "events"} \subseteq DOMAIN parsed.value.v

\* C9: whenever the call of the language model returns, chat_with_user
\* returns a success result; the result carries a schedule exactly when the
\* prompt is classified as a scheduling request, the reply begins with "{"
\* (leading whitespace ignored), parses as JSON and has the keys
\* "schedule_type" and "events"; otherwise it carries no schedule and its
\* message is the raw reply.
C9_ScheduleIffSchedulingJson ==
    \A s \in Answered :
        LET prompt == requests[s].prompt
            reply == requests[s].completion.value
            ai_result == requests[s].ai_result
        IN /\ ai_result # None
           /\ ai_result.t = "map"
           /\ ai_result.v["success"] = JBool(TRUE)
           /\ IF /\ _is_scheduling_request(prompt)
                 /\ BeginsWithBrace(reply)
                 /\ ParsesToSchedule(reply)
              THEN /\ "schedule" \in DOMAIN ai_result.v
                   /\ ai_result.v["schedule"].t = "map"
              ELSE /\ "schedule" \notin DOMAIN ai_result.v
                   /\ ai_result.v["message"] = JStr(reply)

\* a reply with whitespace before its "{" gave a schedule
C9_Witness ==
    \E s \in Answered :
        /\ CharAt(requests[s].completion.value, 1) = " "
        /\ requests[s].ai_result # None
        /\ "schedule" \in DOMAIN requests[s].ai_result.v

-----------------------------------------------------------------------------
(* Properties of the rows of table chats, checked on Spec *)

\* the requests that delete a chat by id
ChatDeletes ==
    { s \in Slots : requests[s].kind \in {"delete_chat", "ChatCRUD.delete_chat"} }

\* the requests that delete an account
AccountDeletes == { s \in Slots : requests[s].kind = "delete_user_account" }

\* the page sizes and offsets of the reads
PageSizes == 1..MaxRequests

Offsets == 0..MaxRequests

\* C5: every operation that reads or deletes rows of chats filters by owner:
\* in every reachable state get_chat_by_id, get_user_chats and the history
\* endpoint called for user a return rows of a only, and delete_chat (endpoint
\* and ChatCRUD) called for a deletes rows of a only.
C5_ReadsAndDeletesFilterByOwner ==
    /\ \A a \in UserIds, chat_id \in ChatIds :
           /\ LET chat == get_chat_by_id(chats, chat_id, a) IN
                  chat # None => (chat \in chats /\ chat.user_id = a)
           /\ \A c \in chats \ delete_chat(chats, chat_id, a).rows : c.user_id = a
           /\ \A c \in chats \ crud_delete_chat(chats, chat_id, a).rows : c.user_id = a
    /\ \A a \in UserIds, limit \in PageSizes, offset \in Offsets :
           LET page_chats == get_user_chats(chats, a, limit, offset) IN
           \A i \in 1..Len(page_chats) :
               page_chats[i] \in chats /\ page_chats[i].user_id = a
    /\ \A a \in UserIds, page \in PageSizes, per_page \in PageSizes :
           LET history == get_chat_history(chats, a, page, per_page) IN
           history.status = 200 =>
               \A i \in 1..Len(history.body.chats) :
                   \E c \in chats : /\ c.user_id = a
                                    /\ c.id = history.body.chats[i].id
                                    /\ c.prompt = history.body.chats[i].prompt
    /\ \A s \in ChatDeletes :
           \A c \in requests[s].deleted : c.user_id = requests[s].user

\* a user has a row that ChatCRUD.delete_chat, called for another user with
\* the row's id, has left in the table and that only its owner reads
C5_Witness ==
    \E s \in ChatDeletes, c \in chats :
        /\ requests[s].kind = "ChatCRUD.delete_chat"
        /\ requests[s].chat_id = c.id
        /\ requests[s].user # c.user_id
        /\ requests[s].response = [returned |-> FALSE]
        /\ get_chat_by_id(chats, c.id, requests[s].user) = None
        /\ get_chat_by_id(chats, c.id, c.user_id) = c
        /\ get_user_chats(chats, requests[s].user, MaxRequests, 0) = <<>>

\* C6: deleting a chat by id gives the caller the same outcome when the id is
\* that of another user's row as when no row has the id: the same "not found"
\* error and no change of the table; the response and the effect on the
\* caller's rows are what they are in the table without the other users' rows.
C6_OthersRecordLooksAbsent ==
    /\ \A a \in UserIds, chat_id \in ChatIds :
           LET mine == { c \in chats : c.user_id = a }
               seen == delete_chat(chats, chat_id, a)
               alone == delete_chat(mine, chat_id, a)
               crud_seen == crud_delete_chat(chats, chat_id, a)
               crud_alone == crud_delete_chat(mine, chat_id, a)
           IN /\ seen.response = alone.response
              /\ chats \ seen.rows = mine \ alone.rows
              /\ crud_seen.result = crud_alone.result
              /\ chats \ crud_seen.rows = mine \ crud_alone.rows
              /\ (\A c \in mine : c.id # chat_id) =>
                     /\ seen = [response |-> ChatNotFound, rows |-> chats]
                     /\ crud_seen = [result |-> FALSE, rows |-> chats]
    /\ \A s \in ChatDeletes :
           (requests[s].kind = "delete_chat" /\ requests[s].deleted = {}) =>
               requests[s].response = ChatNotFound

\* a user has asked to delete the chat of another user and was answered
\* "not found"; the chat is still there
C6_Witness ==
    \E s \in ChatDeletes, c \in chats :
        /\ requests[s].kind = "delete_chat"
        /\ requests[s].chat_id = c.id
        /\ requests[s].user # c.user_id
        /\ requests[s].response = ChatNotFound

\* the request of slot s is answered in this step
Answers(s) == requests[s].pc # "done" /\ requests'[s].pc = "done"

\* C7: a row of chats never changes, and it leaves the table only in a step
\* of delete_chat (endpoint or ChatCRUD) called for its owner with its id, or
\* of the deletion of its owner's account; every other step keeps every row.
C7_RecordsLeaveOnlyByTheirOwner ==
    [][\A c \in chats :
          \/ c \in chats'
          \/ \E s \in Slots :
                 /\ Answers(s)
                 /\ requests'[s].user = c.user_id
                 /\ \/ /\ requests'[s].kind \in {"delete_chat", "ChatCRUD.delete_chat"}
                       /\ requests'[s].chat_id = c.id
                    \/ requests'[s].kind = "delete_user_account"]_vars

\* a row stored by a submission has left the table in its owner's delete_chat
C7_Witness ==
    \E s \in Submissions, d \in ChatDeletes :
        /\ requests[s].chat_record # None
        /\ requests[s].chat_record \notin chats
        /\ requests[d].kind = "delete_chat"
        /\ requests[d].user = requests[s].user
        /\ requests[d].deleted = {requests[s].chat_record}

\* the submissions of prompt p by user u that were answered with success
Succeeded(u, p) ==
    { s \in Submissions : /\ requests[s].user = u
                          /\ requests[s].prompt = p
                          /\ requests[s].pc = "done"
                          /\ requests[s].response.status = 200 }

\* C8: submissions are not deduplicated: when a user has submitted a prompt N
\* times with success, in any interleaving, the submissions have created N
\* distinct rows, one each; while nothing is deleted the table holds them all,
\* under N different ids.
C8_OneRecordPerSubmission ==
    \A u \in UserIds, p \in MainPrompts :
        LET created == { requests[s].chat_record : s \in Succeeded(u, p) } IN
        /\ \A s \in Succeeded(u, p) :
               /\ requests[s].chat_record # None
               /\ requests[s].chat_record.user_id = u
               /\ requests[s].chat_record.prompt = p
        /\ Cardinality(created) = Cardinality(Succeeded(u, p))
        /\ (ChatDeletes = {} /\ AccountDeletes = {}) =>
               /\ created \subseteq chats
               /\ Cardinality({ c.id : c \in created }) = Cardinality(Succeeded(u, p))

\* a user has submitted the same prompt in every slot, every submission
\* succeeded, and the later submission stored its row first
C8_Witness ==
    \E u \in UserIds, p \in MainPrompts :
        /\ Succeeded(u, p) = Slots
        /\ \E s, t \in Slots :
               /\ s < t
               /\ requests[t].chat_record.created_at < requests[s].chat_record.created_at

-----------------------------------------------------------------------------
(* Properties of the validator's output fields, checked on SpecValidate *)

\* the call has returned for an input dict
ValidatedDict == vpc = "returned" /\ vIn.t = "map"

\* the text form of field `key` of element e, or `default` when e has no such
\* field
TextOr(e, key, default) ==
    IF key \in DOMAIN e.v THEN PyStr(e.v[key]) ELSE default

\* text when it is one of `allowed`, `fallback` otherwise
OneOfOr(text, allowed, fallback) ==
    IF text \in allowed THEN text ELSE fallback

\* C11: every event of the output has exactly the seven fields title,
\* description, start_time, end_time, date, category and priority, each a
\* text: a field present in the input element is kept in its text form, an
\* absent description, start_time, end_time or date becomes "", "09:00",
\* "10:00" or today; category is one of work, personal, health, education,
\* social and is "personal" for any other or absent value; priority is one of
\* high, medium, low and is "medium" otherwise.
C11_EventFieldsAreRepaired ==
    ValidatedDict =>
        LET out == vOut.value.v["events"].v
            kept == TitledMappings(InputEvents)
        IN /\ Len(out) = Len(kept)
           /\ \A i \in 1..Len(out) :
                  /\ DOMAIN out[i].v = {"title", "description", "start_time",
                                        "end_time", "date", "category", "priority"}
                  /\ \A k \in DOMAIN out[i].v : out[i].v[k].t = "str"
                  /\ out[i].v["title"].v = TextOr(kept[i], "title", "")
                  /\ out[i].v["description"].v = TextOr(kept[i], "description", "")
                  /\ out[i].v["start_time"].v = TextOr(kept[i], "start_time", "09:00")
                  /\ out[i].v["end_time"].v = TextOr(kept[i], "end_time", "10:00")
                  /\ out[i].v["date"].v = TextOr(kept[i], "date", IsoFormat(vToday))
                  /\ out[i].v["category"].v =
                         OneOfOr(TextOr(kept[i], "category", "personal"),
                                 {"work", "personal", "health", "education", "social"},
                                 "personal")
                  /\ out[i].v["priority"].v =
                         OneOfOr(TextOr(kept[i], "priority", "medium"),
                                 {"high", "medium", "low"}, "medium")

\* an element with a number as title, a time "9am", a date null, a category
\* "fun" and a number as priority has come out with its texts and the default
\* category and priority, next to an element with a title only
C11_Witness ==
    /\ ValidatedDict
    /\ vToday = [y |-> 2025, m |-> 12, d |-> 31]
    /\ \E i, j \in 1..Len(vOut.value.v["events"].v) :
           /\ vOut.value.v["events"].v[i] =
                  MkDict([title |-> JStr("7"), description |-> JStr(""),
                          start_time |-> JStr("9am"), end_time |-> JStr("10:00"),
                          date |-> JStr("None"), category |-> JStr("personal"),
                          priority |-> JStr("medium")])
           /\ vOut.value.v["events"].v[j] =
                  MkDict([title |-> JStr("Standup"), description |-> JStr(""),
                          start_time |-> JStr("09:00"), end_time |-> JStr("10:00"),
                          date |-> JStr("2025-12-31"), category |-> JStr("personal"),
                          priority |-> JStr("medium")])

\* C12: the output's schedule_type is the input's when that is "daily",
\* "weekly" or "custom", and "custom" for every other input: the key absent,
\* or any other value of any type.
C12_ScheduleTypeKeptOrCustom ==
    ValidatedDict =>
        vOut.value.v["schedule_type"] =
            IF /\ "schedule_type" \in DOMAIN vIn.v
               /\ vIn.v["schedule_type"] \in {JStr("daily"), JStr("weekly"), JStr("custom")}
            THEN vIn.v["schedule_type"]
            ELSE JStr("custom")

\* a schedule type that is a text outside the three has become "custom"
C12_Witness ==
    /\ ValidatedDict
    /\ "schedule_type" \in DOMAIN vIn.v
    /\ vIn.v["schedule_type"] = JStr("monthly")
    /\ vOut.value.v["schedule_type"] = JStr("custom")

\* s is a date text of the form YYYY-MM-DD
IsDateText(val) ==
    /\ val.t = "str"
    /\ Len(val.v) = 10
    /\ \A i \in 1..10 :
           IF i \in {5, 8} THEN CharAt(val.v, i) = "-"
           ELSE CharAt(val.v, i) \in DigitChars

\* x is a mapping with start_date and end_date, both date texts
WellFormedDateRange(x) ==
    /\ x.t = "map"
    /\ {"start_date", "end_date"} \subseteq DOMAIN x.v
    /\ IsDateText(x.v["start_date"])
    /\ IsDateText(x.v["end_date"])

\* C13, as stated: the output's date_range is always a mapping with
\* start_date and end_date in the form YYYY-MM-DD: an input date_range that is
\* absent or malformed (no mapping, a key missing, or a value that is no
\* well-formed date text) is replaced by [today, today + 1 day], and a
\* well-formed one is kept unchanged.
C13_DateRangeIsWellFormed ==
    ValidatedDict =>
        /\ WellFormedDateRange(vOut.value.v["date_range"])
        /\ vOut.value.v["date_range"] =
               IF "date_range" \in DOMAIN vIn.v /\ WellFormedDateRange(vIn.v["date_range"])
               THEN vIn.v["date_range"]
               ELSE MkDict([start_date |-> JStr(IsoFormat(vToday)),
                            end_date |-> JStr(IsoFormat(PlusOneDay(vToday)))])

\* C14, as stated: the output's suggestions is always a sequence of strings:
\* an input suggestions that is absent, no list, or a list with an element
\* that is no string is replaced by the empty sequence; a list of strings is
\* kept in order.
C14_SuggestionsAreStrings ==
    ValidatedDict =>
        /\ vOut.value.v["suggestions"].t = "list"
        /\ \A i \in 1..Len(vOut.value.v["suggestions"].v) :
               vOut.value.v["suggestions"].v[i].t = "str"
        /\ vOut.value.v["suggestions"] =
               IF /\ "suggestions" \in DOMAIN vIn.v
                  /\ vIn.v["suggestions"].t = "list"
                  /\ \A i \in 1..Len(vIn.v["suggestions"].v) :
                         vIn.v["suggestions"].v[i].t = "str"
               THEN vIn.v["suggestions"]
               ELSE JList(<<>>)

\* C15: the validator is idempotent: validating again what it returned, on
\* the same day, returns and gives the same value.
C15_ValidatorIsIdempotent ==
    vpc \in {"returned again", "raised again"} =>
        /\ vpc = "returned again"
        /\ vOut = Ok(vIn)

\* a dict with a repaired event (a number as title, an unknown category) and
\* replaced fields has been validated again
C15_Witness ==
    /\ vpc = "returned again"
    /\ vOut.value.v["schedule_type"] = JStr("custom")
    /\ \E i \in 1..Len(vOut.value.v["events"].v) :
           /\ vOut.value.v["events"].v[i].v["title"] = JStr("7")
           /\ vOut.value.v["events"].v[i].v["date"] = JStr("None")

-----------------------------------------------------------------------------
(* Properties of the statistics, checked on SpecStats *)

\* the requests to GET /user/stats that were answered
StatsRequests ==
    { s \in Slots : requests[s].kind = "get_user_statistics" }

\* the records of user u
RecordsOf(u) == { c \in chats : c.user_id = u }

\* the document the response of record c decodes to
Decoded(c) == JsonLoads(c.response, HistoryJson)

\* the response of record c decodes as JSON and has a "schedule" with an
\* "events" sequence
BearsSchedule(c) ==
    /\ Decoded(c).ok
    /\ Decoded(c).value.t = "map"
    /\ "schedule" \in DOMAIN Decoded(c).value.v
    /\ Decoded(c).value.v["schedule"].t = "map"
    /\ "events" \in DOMAIN Decoded(c).value.v["schedule"].v
    /\ Decoded(c).value.v["schedule"].v["events"].t = "list"

\* the events of a record that bears a schedule
EventsOf(c) == Decoded(c).value.v["schedule"].v["events"].v

\* the sum of f over the set S of records
RECURSIVE SumOver(_, _)
SumOver(S, f) ==
    IF S = {} THEN 0
    ELSE LET c == CHOOSE x \in S : TRUE IN f[c] + SumOver(S \ {c}, f)

\* C16: total_schedules is the number of the user's records whose response
\* decodes and holds a schedule with events, the records counted for the
\* average.
C16_TotalSchedulesCountsScheduleRecords ==
    \A s \in StatsRequests :
        /\ requests[s].stats.ok
        /\ requests[s].stats.value.total_schedules =
               Cardinality({ c \in RecordsOf(requests[s].user) : BearsSchedule(c) })

\* the category an event counts under
CategoryOf(event) ==
    IF "category" \in DOMAIN event.v THEN event.v["category"] ELSE JStr("unknown")

\* the number of events of category k in the schedule-bearing records of u
EventsInCategory(u, k) ==
    SumOver({ c \in RecordsOf(u) : BearsSchedule(c) },
            [c \in chats |->
                IF BearsSchedule(c)
                THEN Cardinality({ i \in 1..Len(EventsOf(c)) :
                                     CategoryOf(EventsOf(c)[i]) = k })
                ELSE 0])

\* the categories of the events of the schedule-bearing records of u
CategoriesOf(u) ==
    UNION { { CategoryOf(EventsOf(c)[i]) : i \in 1..Len(EventsOf(c)) } :
              c \in { r \in RecordsOf(u) : BearsSchedule(r) } }

\* the categories of the events of the rows of scan, each at the place of its
\* first event
RECURSIVE FirstSeen(_, _)
FirstSeen(categories, seen) ==
    IF categories = <<>> THEN seen
    ELSE FirstSeen(Tail(categories),
                   IF \E i \in 1..Len(seen) : seen[i] = Head(categories)
                   THEN seen ELSE Append(seen, Head(categories)))

RECURSIVE CategoriesInScan(_)
CategoriesInScan(scan) ==
    IF scan = <<>> THEN <<>>
    ELSE (IF BearsSchedule(Head(scan))
          THEN [i \in 1..Len(EventsOf(Head(scan))) |->
                   CategoryOf(EventsOf(Head(scan))[i])]
          ELSE <<>>) \o CategoriesInScan(Tail(scan))

\* C17: category_usage counts, for each category, the events of that category
\* in the user's schedule-bearing records; most_used_category is absent
\* exactly when category_usage is empty, and otherwise is a key with the
\* greatest count, among several the one the scan met first.
C17_CategoryUsageAndMostUsed ==
    \A s \in StatsRequests :
        /\ requests[s].stats.ok
        /\ LET u == requests[s].user
               usage == requests[s].stats.value.category_usage
               most == requests[s].stats.value.most_used_category
               keys == [i \in 1..Len(usage) |-> usage[i].key]
           IN /\ { keys[i] : i \in 1..Len(keys) } = CategoriesOf(u)
              /\ \A i, j \in 1..Len(keys) : keys[i] = keys[j] => i = j
              /\ \A i \in 1..Len(usage) :
                     usage[i].count = EventsInCategory(u, usage[i].key)
              /\ (most = None) <=> (usage = <<>>)
              /\ \E scan \in RowOrders(RecordsOf(u)) :
                     /\ keys = FirstSeen(CategoriesInScan(scan), <<>>)
                     /\ usage # <<>> =>
                            \E i \in 1..Len(usage) :
                                /\ most = usage[i].key
                                /\ \A j \in 1..Len(usage) :
                                       usage[j].count <= usage[i].count
                                /\ \A j \in 1..(i - 1) :
                                       usage[j].count < usage[i].count

\* the statistics of a user with a record of two "work" events, a record of
\* one "personal" event and a record without schedule were answered
C17_Witness ==
    \E s \in StatsRequests :
        /\ Cardinality(RecordsOf(requests[s].user)) = 3
        /\ Cardinality({ c \in RecordsOf(requests[s].user) : BearsSchedule(c) }) = 2
        /\ requests[s].stats.ok
        /\ { requests[s].stats.value.category_usage[i] :
               i \in DOMAIN requests[s].stats.value.category_usage }
             = { [key |-> JStr("work"), count |-> 2],
                 [key |-> JStr("personal"), count |-> 1] }
        /\ requests[s].stats.value.most_used_category = JStr("work")

\* C18: average_events_per_schedule is the number of events of the user's
\* schedule-bearing records divided by the number of these records, and 0.0
\* when there is none; the computation never divides by zero, and a user
\* without records gets 0, 0, 0.0 and no most_used_category.
C18_AverageIsGuarded ==
    \A s \in StatsRequests :
        /\ requests[s].stats.ok
        /\ LET u == requests[s].user
               stats == requests[s].stats.value
               bearing == { c \in RecordsOf(u) : BearsSchedule(c) }
               events == SumOver(bearing,
                                 [c \in chats |->
                                     IF BearsSchedule(c) THEN Len(EventsOf(c)) ELSE 0])
               average == stats.average_events_per_schedule
           IN /\ bearing # {} =>
                     /\ average.den > 0
                     /\ average.num * Cardinality(bearing) = events * average.den
              /\ bearing = {} => average = ZeroFloat
              /\ RecordsOf(u) = {} =>
                     /\ stats.total_chats = 0
                     /\ stats.total_schedules = 0
                     /\ average = ZeroFloat
                     /\ stats.most_used_category = None

\* the statistics of a user without records were answered, while the other
\* user has records
C18_Witness ==
    \E s \in StatsRequests :
        /\ requests[s].stats.ok
        /\ RecordsOf(requests[s].user) = {}
        /\ chats # {}
        /\ requests[s].stats.value.average_events_per_schedule = ZeroFloat
        /\ requests[s].response.status = 200

-----------------------------------------------------------------------------
(* The classification of the prompt, checked on SpecChat *)

\* keyword k stands in the prompt at position i, the case of the prompt's
\* letters ignored
KeywordAt(prompt, k, i) ==
    /\ i + Len(k) - 1 <= Len(prompt)
    /\ \A j \in 1..Len(k) : LowerChar(CharAt(prompt, i + j - 1)) = CharAt(k, j)

\* some keyword of the vocabulary stands somewhere in the prompt
HasKeyword(prompt) ==
    \E n \in 1..Len(scheduling_keywords), i \in 1..Len(prompt) :
        KeywordAt(prompt, scheduling_keywords[n], i)

\* C19: a prompt is classified as a scheduling request exactly when a keyword
\* of the vocabulary occurs in its lower-cased text, wherever and in whatever
\* sentence it stands; "Plan my Monday" is one.  A reply that is a schedule
\* in JSON therefore gives a schedule exactly for these prompts.
C19_SchedulingIffKeywordOccurs ==
    \A s \in Submissions :
        LET prompt == requests[s].prompt IN
        /\ _is_scheduling_request(prompt) <=> HasKeyword(prompt)
        /\ prompt = "Plan my Monday" => _is_scheduling_request(prompt)
        /\ (/\ requests[s].completion.ok
            /\ BeginsWithBrace(requests[s].completion.value)
            /\ ParsesToSchedule(requests[s].completion.value)) =>
               /\ requests[s].ai_result # None
               /\ "schedule" \in DOMAIN requests[s].ai_result.v <=> HasKeyword(prompt)

\* a prompt that asks for no schedule, in capitals or with the keyword inside
\* a longer word, was classified as a scheduling request and got a schedule
C19_Witness ==
    \E s \in Answered :
        /\ requests[s].prompt \in { "Do not schedule anything", "ORGANIZE things",
                                    "What is a holiday?" }
        /\ requests[s].ai_result # None
        /\ "schedule" \in DOMAIN requests[s].ai_result.v

-----------------------------------------------------------------------------
(* Deletion of an account, checked on Spec *)

\* a step in which the account of user u is deleted removes the user row,
\* the ChatRecords and the preferences of u, and leaves the rows of every
\* other user as they were
DeletionRemovesOwnRows ==
    \A u \in UserIds :
        (u \in users /\ u \notin users') =>
            /\ users' = users \ {u}
            /\ { c \in chats' : c.user_id = u } = {}
            /\ { p \in preferences' : p.user_id = u } = {}
            /\ { c \in chats' : c.user_id # u } = { c \in chats : c.user_id # u }
            /\ { p \in preferences' : p.user_id # u }
                 = { p \in preferences : p.user_id # u }

\* every ChatRecord and every row of preferences is of a user that exists
EveryRowHasItsUser ==
    /\ \A c \in chats : c.user_id \in users
    /\ \A p \in preferences : p.user_id \in users

\* C20: the deletion of the account of u leaves no user row, no ChatRecord
\* and no preferences of u and changes no row of another user; hence in
\* every reachable state each ChatRecord and each row of preferences is of a
\* user that exists.
C20_DeletionLeavesNoOrphans ==
    /\ [][DeletionRemovesOwnRows]_vars
    /\ []EveryRowHasItsUser

-----------------------------------------------------------------------------
(* The histories of the statistics runs, checked on SpecStats *)

\* the replies of the language model behind the records of the histories
HistoryReplies ==
    { JsonDumps(ReportDay), JsonDumps(CallDay), JsonDumps(FreeDay) }
    \cup HistoryTalk

\* the histories hold what POST /chat/ stores: their documents are what the
\* handler keeps as ai_result when the language model gives these replies
HistoriesAreStored ==
    HistoryDocuments =
        { request.ai_result :
            request \in { r \in { AfterModelCall([IdleRequest EXCEPT
                                                     !.prompt = "Plan my Monday"],
                                                 Ok(reply), now) :
                                      reply \in HistoryReplies, now \in Clocks } :
                              r.pc = "store" } }


-----------------------------------------------------------------------------
(* C25: single attempt *)

\* the language model has been called for the submission and has answered or
\* raised
ModelCalled(request) == request.completion # Raise("pending")

\* one step of the submission in slot s: the handler calls the language model
\* once, from the start of the submission, and attempts the insert once, from
\* the answer of the language model
SingleAttempt(s) ==
    LET before == requests[s]
        after == requests'[s]
    IN
    /\ (after.pc = "model" /\ after # before) => before.pc = "idle"
    /\ (before.pc = "model" /\ after # before) =>
           /\ after.pc \in {"store", "done"}
           /\ ModelCalled(after)
    /\ ModelCalled(before) => after.completion = before.completion
    /\ (after.pc = "store" /\ after # before) =>
           /\ before.pc = "model"
           /\ after.completion.ok
    /\ (before.pc = "store" /\ after # before) => after.pc = "done"
    /\ before.pc = "done" => after = before

-----------------------------------------------------------------------------
(* C28: an error answer and the stored records *)

\* C28: whenever POST /chat/ answers with an error, whatever the cause (the
\* language model failed, the schedule was rejected by its schema, the insert
\* failed, building the response failed), the stored ChatRecords are those of
\* before the request: a ChatRecord created by a submission implies that the
\* submission answered with success.
C28_ErrorLeavesNoRecord ==
    \A s \in Submissions :
        (requests[s].pc = "done" /\ requests[s].response.status # 200) =>
            /\ requests[s].chat_record = None
            /\ chats \subseteq StoredRecords \ {requests[s].chat_record}

-----------------------------------------------------------------------------
(* C30: the conversation identifier *)

\* the conversation identifier inside the response text of a stored row
StoredConversationId(chat) ==
    JsonLoads(chat.response, StoredJson).value.v["conversation_id"]

\* C30: for every successful chat submission, the conversation identifier
\* returned to the caller is the identifier stored inside the response of the
\* ChatRecord persisted for that turn.
C30_ReturnedIdIsStoredId ==
    \A s \in Submissions :
        (requests[s].pc = "done" /\ requests[s].response.status = 200) =>
            /\ requests[s].chat_record \in chats
            /\ requests[s].response.body.v.conversation_id
                   = StoredConversationId(requests[s].chat_record)

-----------------------------------------------------------------------------
(* The rate limiter, checked on SpecRate *)

\* the number of requests of `times` in the interval of `window` seconds that
\* begins at time t
CountWithin(times, t, window) ==
    Cardinality({ i \in DOMAIN times : t <= times[i] /\ times[i] < t + window })

\* C26: for every client key and every endpoint type with its configured
\* (limit, window), the number of requests of that type that is_allowed
\* admits within any interval of window seconds never exceeds limit, whatever
\* the interleaving of the requests of all endpoint types from that key.
C26_AdmittedWithinLimit ==
    \A key \in ClientKeys, endpoint_type \in EndpointTypes :
        LET times == admitted[<<key, endpoint_type>>] IN
        \A i \in DOMAIN times :
            CountWithin(times, times[i], LimitOf(endpoint_type)[2])
                <= LimitOf(endpoint_type)[1]

\* what is_allowed answers when only the admitted requests of the endpoint
\* type itself are on the client's list
AllowedOnItsOwn(key, endpoint_type) ==
    is_allowed((key :> admitted[<<key, endpoint_type>>]), key, endpoint_type,
               clock).allowed

\* C29: the quotas of different endpoint types are independent for one client
\* key: the requests admitted for one endpoint type never change whether a
\* request of another endpoint type from the same key is admitted or denied.
C29_QuotasAreIndependent ==
    \A key \in ClientKeys, path \in Paths :
        is_allowed(rate_limiter, key, EndpointTypeOf(path), clock).allowed
            = AllowedOnItsOwn(key, EndpointTypeOf(path))

-----------------------------------------------------------------------------
(* Registration and login, checked on SpecAuth *)

\* the requests to POST /auth/register that have been answered
Registrations ==
    { s \in Slots : requests[s].kind = "register_user" /\ requests[s].pc = "done" }

\* the registration found its email taken: by the lookup before the insert,
\* or by the uniqueness of users.email at the insert
FoundTaken(s) ==
    /\ requests[s].user = 0
    /\ requests[s].error \in {"HTTPException", "IntegrityError"}

\* C21: register_user for an email that already belongs to a user creates no
\* second user and fails with 400 'Email already registered', whether the
\* lookup before the insert or the uniqueness constraint of the database
\* detects the duplicate (of two concurrent registrations of one email,
\* exactly one succeeds).
C21_DuplicateEmailIsRefused ==
    /\ \A u, v \in users : emails[u] = emails[v] => u = v
    /\ \A s \in Registrations :
           FoundTaken(s) => requests[s].response = EmailAlreadyRegistered
    /\ \A s, t \in Registrations :
           (requests[s].email = requests[t].email
            /\ requests[s].response.status = 201
            /\ requests[t].response.status = 201) => s = t

\* C24: create_user creates the user with default preferences: whenever a user
\* row exists after create_user has ended (returned or raised), that user has
\* exactly one row of preferences, and no user ever has more than one, also
\* when concurrent requests create the preferences lazily.
C24_UserHasItsPreferences ==
    /\ \A s \in Registrations :
           requests[s].user \in users =>
               Cardinality(get_user_preferences(preferences, requests[s].user)) = 1
    /\ \A u \in users :
           Cardinality(get_user_preferences(preferences, u)) <= 1

\* the requests to POST /auth/login that have been answered
Logins ==
    { s \in Slots : requests[s].kind = "login_user" /\ requests[s].pc = "done" }

\* C27: get_user_by_email is case-insensitive: for every registered user with
\* stored email E and every E' equal to E up to letter case and surrounding
\* whitespace, get_user_by_email(E') returns that user, so that a user who
\* registered with E can log in with E.
C27_LookupIgnoresCase ==
    /\ \A u \in users, raw \in RawEmails :
           PyLower(PyStrip(raw)) = PyLower(PyStrip(emails[u])) =>
               get_user_by_email(users, emails, raw) = {u}
    /\ \A s \in Logins :
           (requests[s].owners # {} /\ requests[s].error # "wrong password") =>
               /\ requests[s].response.status = 200
               /\ requests[s].user \in requests[s].owners

-----------------------------------------------------------------------------
(* Updates of the preferences, checked on SpecPrefs *)

\* this step answers the request of slot s to PUT /user/preferences
AnswersUpdate(s) ==
    /\ requests[s].pc = "idle"
    /\ requests'[s].pc = "done"
    /\ requests'[s].kind = "update_user_preferences"

\* the columns for which a body specifies a value
SpecifiedColumns(body) ==
    UNION { DOMAIN body[section] : section \in ProvidedSections(body) }
        \cup (DOMAIN body \cap {"custom_settings"})

\* the update of user u with the body leaves every column of every row as it
\* is, but for the columns of u's row the body specifies
OnlySpecifiedChange(u, body) ==
    \A p \in preferences :
        \E q \in preferences' :
            /\ q.id = p.id
            /\ q.user_id = p.user_id
            /\ \A column \in DOMAIN ColumnDefaults :
                   (p.user_id # u \/ column \notin SpecifiedColumns(body)) =>
                       q[column] = p[column]

\* C22: a preferences update changes only what the request provides: the
\* sections the request does not provide stay as they are, and within a
\* provided section (notifications, schedule, ai) every field the request
\* does not specify keeps its stored value.
C22_UpdateChangesOnlyWhatIsProvided ==
    [][\A s \in Slots :
          AnswersUpdate(s) =>
              OnlySpecifiedChange(requests'[s].user, requests'[s].body)]_vars

\* the work hours of the body's schedule section have their end not after
\* their start, or span more than 16 hours
HasBadWorkHours(body) ==
    /\ "schedule" \in DOMAIN body
    /\ LET schedule == SectionModel("schedule", body["schedule"]) IN
       validate_work_hours(schedule["default_work_hours_start"],
                           schedule["default_work_hours_end"])[2]
           \in { "End time must be after start time",
                 "Work day cannot exceed 16 hours" }

\* C23: a preferences update whose work hours have their end not after their
\* start, or span more than 16 hours, is rejected with an error and leaves the
\* stored preferences unchanged.
C23_BadWorkHoursAreRejected ==
    [][\A s \in Slots :
          (AnswersUpdate(s) /\ HasBadWorkHours(requests'[s].body)) =>
              /\ requests'[s].response.status # 200
              /\ preferences' = preferences]_vars
=============================================================================
